---------------------------- MODULE Spec2Model ----------------------------
(***************************************************************************)
(* A model of the enterprise sales agent: the ICP scoring engine           *)
(* (src/icp/scoring.py), lead discovery (src/lead_discovery/sources.py)    *)
(* and the workflow loop that drives them (src/core.py).                   *)
(*                                                                         *)
(* Text is modelled as a sequence of one-character strings, so that        *)
(* splitting, stripping, lower-casing, substring tests and the two regular *)
(* expressions of the parser are computed character by character.          *)
(* Dictionaries are functions with string domains; dict.get(k, default) is *)
(* Get.  Python's None is the empty tuple and an optional integer n is     *)
(* <<n>>.  Scores are integers in hundredths (18.0 is 1800).               *)
(***************************************************************************)
EXTENDS Integers, Sequences, FiniteSets, TLC

VARIABLES
    \* ICPScorer (src/icp/scoring.py)
    raw_icp_definition,  \* ICPScorer.raw_icp_definition
    parsed_icp,          \* ICPScorer.parsed_icp (None before __init__ has run)
    bucket_thresholds,   \* ICPScorer.bucket_thresholds (None: no such attribute)
    op,                  \* the last method called on the scorer
    arg,                 \* its argument: the caller's lead record, or a score
    result,              \* what it returned or raised
    \* EnterpriseSalesAgent (src/core.py)
    current_stage,       \* EnterpriseSalesAgent.current_stage
    icp_definition,      \* EnterpriseSalesAgent.icp_definition
    icp_scorer,          \* whether EnterpriseSalesAgent.icp_scorer was built
    leads,               \* the lead list built inside discover_leads
    processed_leads,     \* EnterpriseSalesAgent.processed_leads
    researched_leads,    \* EnterpriseSalesAgent.researched_leads
    qualified_leads,     \* EnterpriseSalesAgent.qualified_leads
    engaged_leads,       \* EnterpriseSalesAgent.engaged_leads
    booked_leads,        \* EnterpriseSalesAgent.booked_leads
    crm_outcomes,        \* LearningEngine.crm_outcomes
    active_framework,    \* QualificationManager.active_framework
    api_keys,            \* the API keys set in the environment
    raised               \* the exception that ended run_workflow, or None

scorer_vars == <<raw_icp_definition, parsed_icp, bucket_thresholds, op, arg, result>>

workflow_vars ==
    <<current_stage, icp_definition, icp_scorer, leads, processed_leads,
      researched_leads, qualified_leads, engaged_leads, booked_leads, crm_outcomes,
      active_framework, api_keys, raised>>

vars == <<scorer_vars, workflow_vars>>

---------------------------------------------------------------------------
(* Bounds of the model.                                                    *)

\* Range bounds written into company_size texts are 0..MaxBoundValue.
MaxBoundValue == 12

\* A search (web or company database) returns at most MaxResults results.
MaxResults == 2

---------------------------------------------------------------------------
(* Python values.                                                          *)

None == << >>

Some(n) == <<n>>

EmptyDict == << >>

EmptyStr == << >>

\* dict.get(k, default)
Get(d, k, default) == IF k \in DOMAIN d THEN d[k] ELSE default

---------------------------------------------------------------------------
(* Characters and strings.                                                 *)

UpperChars ==
    <<"A","B","C","D","E","F","G","H","I","J","K","L","M",
      "N","O","P","Q","R","S","T","U","V","W","X","Y","Z">>

LowerChars ==
    <<"a","b","c","d","e","f","g","h","i","j","k","l","m",
      "n","o","p","q","r","s","t","u","v","w","x","y","z">>

DigitChars == <<"0","1","2","3","4","5","6","7","8","9">>

\* str.lower() on one character
LowerChar(c) ==
    IF \E i \in 1..Len(UpperChars) : UpperChars[i] = c
    THEN LowerChars[CHOOSE i \in 1..Len(UpperChars) : UpperChars[i] = c]
    ELSE c

\* str.lower()
Lower(s) == [i \in 1..Len(s) |-> LowerChar(s[i])]

\* the whitespace of str.strip() and of \s
IsSpace(c) == c \in {" ", "\t", "\n"}

\* \d
IsDigit(c) == \E i \in 1..Len(DigitChars) : DigitChars[i] = c

\* str.strip()
Strip(s) ==
    LET keep == {i \in 1..Len(s) : ~IsSpace(s[i])}
    IN  IF keep = {} THEN EmptyStr
        ELSE LET first == CHOOSE i \in keep : \A j \in keep : i <= j
                 last  == CHOOSE i \in keep : \A j \in keep : j <= i
             IN  SubSeq(s, first, last)

\* the character class [,/] of re.split
IsSeparator(c) == c \in {",", "/"}

\* re.split(r'[,/]', s): the pieces between separators, empty pieces kept
RECURSIVE Split(_)
Split(s) ==
    LET seps == {i \in 1..Len(s) : IsSeparator(s[i])}
    IN  IF seps = {} THEN <<s>>
        ELSE LET i == CHOOSE k \in seps : \A j \in seps : k <= j
             IN  <<SubSeq(s, 1, i - 1)>> \o Split(SubSeq(s, i + 1, Len(s)))

\* [x.strip().lower() for x in re.split(r'[,/]', text) if x.strip()]
Tokens(text) ==
    LET pieces == Split(text)
        kept   == SelectSeq(pieces, LAMBDA p : Strip(p) # EmptyStr)
    IN  [i \in 1..Len(kept) |-> Lower(Strip(kept[i]))]

\* needle in hay, for strings
Contains(hay, needle) ==
    \E i \in 1..(Len(hay) - Len(needle) + 1) :
        \A k \in 1..Len(needle) : hay[i + k - 1] = needle[k]

\* x in list
InList(x, list) == \E i \in 1..Len(list) : list[i] = x

\* int(digits)
RECURSIVE ToInt(_)
ToInt(digits) ==
    IF digits = EmptyStr THEN 0
    ELSE 10 * ToInt(SubSeq(digits, 1, Len(digits) - 1))
         + ((CHOOSE i \in 1..10 : DigitChars[i] = digits[Len(digits)]) - 1)

\* str(n) for n >= 0
RECURSIVE Digits(_)
Digits(n) ==
    IF n < 10 THEN <<DigitChars[n + 1]>>
    ELSE Digits(n \div 10) \o <<DigitChars[(n % 10) + 1]>>


---------------------------------------------------------------------------
(* The literals of src/icp/scoring.py.                                     *)

\* "employees"
KW_employees ==
    <<"e","m","p","l","o","y","e","e","s">>

\* "revenue"
KW_revenue ==
    <<"r","e","v","e","n","u","e">>

\* "funding announcements"
SIG_funding_announcements ==
    <<"f","u","n","d","i","n","g"," ","a","n","n","o","u","n","c","e","m","e","n","t","s">>

\* "job postings"
SIG_job_postings ==
    <<"j","o","b"," ","p","o","s","t","i","n","g","s">>

\* "technology changes"
SIG_technology_changes ==
    <<"t","e","c","h","n","o","l","o","g","y"," ","c","h","a","n","g","e","s">>

\* "competitive wins/losses"
SIG_competitive_wins_losses ==
    <<"c","o","m","p","e","t","i","t","i","v","e"," ","w","i","n","s","/","l","o","s","s","e",
      "s">>

\* "product launches"
SIG_product_launches ==
    <<"p","r","o","d","u","c","t"," ","l","a","u","n","c","h","e","s">>


---------------------------------------------------------------------------
(* The two regular expressions of _parse_icp_definition, searched with     *)
(* re.IGNORECASE.  Each quantifier of the two patterns can match in one    *)
(* way only (a digit run is followed by a non-digit, an optional suffix by *)
(* "-" or by white space), so a match at a position is computed without    *)
(* backtracking; re.search returns the match at the leftmost position.     *)

NoMatch == [matched |-> FALSE]

\* the index after the longest run of digits that starts at i
DigitRunEnd(s, i) ==
    CHOOSE j \in i..(Len(s) + 1) :
        /\ \A k \in i..(j - 1) : IsDigit(s[k])
        /\ (j = Len(s) + 1 \/ ~IsDigit(s[j]))

\* the index after the longest run of white space that starts at i
SpaceRunEnd(s, i) ==
    CHOOSE j \in i..(Len(s) + 1) :
        /\ \A k \in i..(j - 1) : IsSpace(s[k])
        /\ (j = Len(s) + 1 \/ ~IsSpace(s[j]))

CharAt(s, i, c) == i >= 1 /\ i <= Len(s) /\ s[i] = c

\* a literal word of a pattern at i, ignoring case
LiteralAt(s, i, word) ==
    /\ i + Len(word) - 1 <= Len(s)
    /\ \A k \in 1..Len(word) : LowerChar(s[i + k - 1]) = LowerChar(word[k])

\* [MKB] under re.IGNORECASE
IsSuffixAt(s, i) == i <= Len(s) /\ LowerChar(s[i]) \in {"m", "k", "b"}

\* (\d+)-(\d+)\s*employees at position i
EmployeeMatchAt(s, i) ==
    LET j == DigitRunEnd(s, i)
        k == DigitRunEnd(s, j + 1)
        m == SpaceRunEnd(s, k)
    IN  IF /\ j > i
           /\ CharAt(s, j, "-")
           /\ k > j + 1
           /\ LiteralAt(s, m, KW_employees)
        THEN [matched |-> TRUE,
              g0 |-> SubSeq(s, i, m + Len(KW_employees) - 1),
              g1 |-> SubSeq(s, i, j - 1),
              g2 |-> SubSeq(s, j + 1, k - 1)]
        ELSE NoMatch

\* employee_match with re.match for re.search: only a match at the start counts
Mut_employee_match(s) ==
    IF s # EmptyStr /\ EmployeeMatchAt(s, 1).matched THEN EmployeeMatchAt(s, 1) ELSE NoMatch

\* re.search(r'(\d+)-(\d+)\s*employees', s, re.IGNORECASE)
employee_match(s) ==
    LET hits == {i \in 1..Len(s) : EmployeeMatchAt(s, i).matched}
    IN  IF hits = {} THEN NoMatch
        ELSE EmployeeMatchAt(s, CHOOSE i \in hits : \A j \in hits : i <= j)

\* \$(\d+)[MKB]?-\$(?:(\d+)[MKB]?)?\s*revenue at position i; g2 is None when
\* the optional second number is absent
RevenueMatchAt(s, i) ==
    LET j  == DigitRunEnd(s, i + 1)
        j2 == IF IsSuffixAt(s, j) THEN j + 1 ELSE j
        p  == j2 + 2
        k  == DigitRunEnd(s, p)
        k2 == IF k > p /\ IsSuffixAt(s, k) THEN k + 1 ELSE k
        m  == SpaceRunEnd(s, k2)
    IN  IF /\ CharAt(s, i, "$")
           /\ j > i + 1
           /\ CharAt(s, j2, "-")
           /\ CharAt(s, j2 + 1, "$")
           /\ LiteralAt(s, m, KW_revenue)
        THEN [matched |-> TRUE,
              g0 |-> SubSeq(s, i, m + Len(KW_revenue) - 1),
              g1 |-> SubSeq(s, i + 1, j - 1),
              g2 |-> IF k > p THEN SubSeq(s, p, k - 1) ELSE None]
        ELSE NoMatch

\* re.search(r'\$(\d+)[MKB]?-\$(?:(\d+)[MKB]?)?\s*revenue', s, re.IGNORECASE)
revenue_match(s) ==
    LET hits == {i \in 1..Len(s) : RevenueMatchAt(s, i).matched}
    IN  IF hits = {} THEN NoMatch
        ELSE RevenueMatchAt(s, CHOOSE i \in hits : \A j \in hits : i <= j)

\* 10**6 if 'M' in group(0) else 10**3 if 'K' in group(0) else 1
RevenueMultiplier(g0) ==
    IF InList("M", g0) THEN 1000000
    ELSE IF InList("K", g0) THEN 1000
    ELSE 1

\* employee_min, employee_max
employee_count_range(company_size_str) ==
    LET m == employee_match(company_size_str)
    IN  IF m.matched
        THEN [min |-> Some(ToInt(m.g1)), max |-> Some(ToInt(m.g2))]
        ELSE [min |-> None, max |-> None]

\* revenue_min, revenue_max
revenue_range(company_size_str) ==
    LET m == revenue_match(company_size_str)
    IN  IF m.matched
        THEN [min |-> Some(ToInt(m.g1) * RevenueMultiplier(m.g0)),
              max |-> IF m.g2 # None
                      THEN Some(ToInt(m.g2) * RevenueMultiplier(m.g0))
                      ELSE None]
        ELSE [min |-> None, max |-> None]

\* a criterion of a group as its list of tokens
TokenList(group, key) == Tokens(Get(group, key, EmptyStr))

\* ICPScorer._parse_icp_definition
ParseIcpDefinition(definition) ==
    LET cc == Get(definition, "company_characteristics", EmptyDict)
        bp == Get(definition, "buyer_persona", EmptyDict)
        es == Get(definition, "engagement_signals", EmptyDict)
        company_size_str == Get(cc, "company_size", EmptyStr)
    IN  [company_characteristics |->
            [industry_vertical    |-> TokenList(cc, "industry_vertical"),
             employee_count_range |-> employee_count_range(company_size_str),
             revenue_range        |-> revenue_range(company_size_str),
             geography            |-> TokenList(cc, "geography"),
             technology_stack     |-> TokenList(cc, "technology_stack"),
             business_model       |-> TokenList(cc, "business_model"),
             funding_growth       |-> TokenList(cc, "funding_growth")],
         buyer_persona |->
            [decision_maker_profile |-> TokenList(bp, "decision_maker_profile"),
             pain_points            |-> TokenList(bp, "pain_points"),
             buying_behavior        |-> TokenList(bp, "buying_behavior")],
         engagement_signals |->
            [intent_signals     |-> TokenList(es, "intent_signals"),
             content_engagement |-> TokenList(es, "content_engagement")]]

\* Python values that are no strings, written as a one-element tuple naming
\* the type: no text has an element of more than one character
PY_NoneType == <<"NoneType">>

PY_int == <<"int">>

PY_list == <<"list">>

NonStrings == {PY_NoneType, PY_int, PY_list}

\* the criteria in the order _parse_icp_definition reads them
ParsedCriteria ==
    << <<"company_characteristics", "industry_vertical">>,
       <<"company_characteristics", "company_size">>,
       <<"company_characteristics", "geography">>,
       <<"company_characteristics", "technology_stack">>,
       <<"company_characteristics", "business_model">>,
       <<"company_characteristics", "funding_growth">>,
       <<"buyer_persona", "decision_maker_profile">>,
       <<"buyer_persona", "pain_points">>,
       <<"buyer_persona", "buying_behavior">>,
       <<"engagement_signals", "intent_signals">>,
       <<"engagement_signals", "content_engagement">> >>

\* the value re.split or re.search is handed for a criterion
CriterionValue(definition, c) == Get(Get(definition, c[1], EmptyDict), c[2], EmptyStr)

\* the exception that ends _parse_icp_definition, or None: re.split and
\* re.search raise TypeError for a value that is no string
parse_exception(definition) ==
    IF \E i \in 1..Len(ParsedCriteria) :
           CriterionValue(definition, ParsedCriteria[i]) \in NonStrings
    THEN Some("TypeError")
    ELSE None

\* new_scorer with a parser that fills the groups the definition lacks into
\* the definition itself (setdefault in place of get)
Mut_new_scorer(definition) ==
    [result |-> [kind |-> "return", value |-> "ICPScorer"],
     raw_icp_definition |->
         [g \in {"company_characteristics", "buyer_persona", "engagement_signals"}
             |-> Get(definition, g, EmptyDict)],
     parsed_icp |-> ParseIcpDefinition(definition)]

\* ICPScorer(icp_definition): the outcome of the constructor, the definition
\* object the caller passed, which line 6 stores as it is, and the parsed_icp
\* of the new object (None when the constructor raised)
new_scorer(definition) ==
    IF parse_exception(definition) # None
    THEN [result |-> [kind |-> "raise", exception |-> parse_exception(definition)[1]],
          raw_icp_definition |-> definition,
          parsed_icp |-> None]
    ELSE [result |-> [kind |-> "return", value |-> "ICPScorer"],
          raw_icp_definition |-> definition,
          parsed_icp |-> ParseIcpDefinition(definition)]

---------------------------------------------------------------------------
(* ICPScorer: the four rubrics.  parsed is parsed_icp, lead_data the lead  *)
(* record.  Each criterion is a predicate; a rubric adds the points of the *)
(* criteria that hold.                                                     *)

\* any(t in value for t in tokens): some token is a substring of value
AnySubstring(tokens, value) ==
    \E i \in 1..Len(tokens) : Contains(value, tokens[i])

\* any(t in values for t in tokens): some token is an element of values
AnyMember(tokens, values) ==
    \E i \in 1..Len(tokens) : InList(tokens[i], values)

\* [x.lower() for x in d.get(key, [])]
LowerList(d, key) ==
    LET xs == Get(d, key, << >>) IN [i \in 1..Len(xs) |-> Lower(xs[i])]

\* d.get(key) is a number other than 0 (None and 0 are falsy)
TruthyNumber(d, key) == key \in DOMAIN d /\ d[key] # 0

\* d.get(key) is truthy, for a flag
Flag(d, key) == key \in DOMAIN d /\ d[key] = TRUE

\* value and range["min"] is not None and range["max"] is not None
\* and range["min"] <= value <= range["max"]
InRange(d, key, range) ==
    /\ TruthyNumber(d, key)
    /\ range.min # None
    /\ range.max # None
    /\ range.min[1] <= d[key]
    /\ d[key] <= range.max[1]

\* value = d.get(key, "").lower(); value and any(t in value for t in tokens)
TextMatch(d, key, tokens) ==
    LET value == Lower(Get(d, key, EmptyStr))
    IN  value # EmptyStr /\ AnySubstring(tokens, value)

\* values = [x.lower() for x in d.get(key, [])]; values and any(t in values ...)
ListMatch(d, key, tokens) ==
    LET values == LowerList(d, key)
    IN  values # << >> /\ AnyMember(tokens, values)

lead_company(lead_data) == Get(lead_data, "company", EmptyDict)

lead_contact(lead_data) == Get(lead_data, "contact", EmptyDict)

lead_signals(lead_data) == Get(lead_data, "signals", EmptyDict)

lead_timing(lead_data) == Get(lead_data, "timing", EmptyDict)

IndustryMatch(parsed, lead_data) ==
    TextMatch(lead_company(lead_data), "industry",
              parsed.company_characteristics.industry_vertical)

EmployeeMatch(parsed, lead_data) ==
    InRange(lead_company(lead_data), "employee_count",
            parsed.company_characteristics.employee_count_range)

RevenueMatch(parsed, lead_data) ==
    InRange(lead_company(lead_data), "revenue_estimate",
            parsed.company_characteristics.revenue_range)

GeographyMatch(parsed, lead_data) ==
    TextMatch(lead_company(lead_data), "geography",
              parsed.company_characteristics.geography)

TechStackMatch(parsed, lead_data) ==
    ListMatch(lead_company(lead_data), "tech_stack",
              parsed.company_characteristics.technology_stack)

GrowthMatch(parsed, lead_data) ==
    ListMatch(lead_company(lead_data), "growth_indicators",
              parsed.company_characteristics.funding_growth)

\* the points of a criterion
Points(holds, points) == IF holds THEN points ELSE 0

\* calculate_company_fit with 30 points for the industry: a budget of 105
Mut_calculate_company_fit(parsed, lead_data) ==
      Points(IndustryMatch(parsed, lead_data), 30)
    + Points(EmployeeMatch(parsed, lead_data), 10)
    + Points(RevenueMatch(parsed, lead_data), 10)
    + Points(GeographyMatch(parsed, lead_data), 15)
    + Points(TechStackMatch(parsed, lead_data), 20)
    + Points(GrowthMatch(parsed, lead_data), 20)

\* ICPScorer._calculate_company_fit
calculate_company_fit(parsed, lead_data) ==
      Points(IndustryMatch(parsed, lead_data), 25)
    + Points(EmployeeMatch(parsed, lead_data), 10)
    + Points(RevenueMatch(parsed, lead_data), 10)
    + Points(GeographyMatch(parsed, lead_data), 15)
    + Points(TechStackMatch(parsed, lead_data), 20)
    + Points(GrowthMatch(parsed, lead_data), 20)

TitleMatch(parsed, lead_data) ==
    TextMatch(lead_contact(lead_data), "title",
              parsed.buyer_persona.decision_maker_profile)

SeniorityMatch(parsed, lead_data) ==
    TextMatch(lead_contact(lead_data), "seniority",
              parsed.buyer_persona.decision_maker_profile)

DepartmentMatch(parsed, lead_data) ==
    TextMatch(lead_contact(lead_data), "department",
              parsed.buyer_persona.decision_maker_profile)

AuthorityMatch(parsed, lead_data) ==
    TextMatch(lead_contact(lead_data), "authority_level",
              parsed.buyer_persona.buying_behavior)

\* ICPScorer._calculate_persona_fit
calculate_persona_fit(parsed, lead_data) ==
      Points(TitleMatch(parsed, lead_data), 30)
    + Points(SeniorityMatch(parsed, lead_data), 25)
    + Points(DepartmentMatch(parsed, lead_data), 25)
    + Points(AuthorityMatch(parsed, lead_data), 20)

\* lead_signals.get(flag) and name in icp_es["intent_signals"]
SignalMatch(parsed, lead_data, flag, name) ==
    /\ Flag(lead_signals(lead_data), flag)
    /\ InList(name, parsed.engagement_signals.intent_signals)

\* the five (flag, signal name, points) rows of the intent rubric
IntentRows ==
    << [flag |-> "recent_funding",        name |-> SIG_funding_announcements,   points |-> 30],
       [flag |-> "hiring_relevant_roles", name |-> SIG_job_postings,            points |-> 25],
       [flag |-> "tech_stack_changes",    name |-> SIG_technology_changes,      points |-> 20],
       [flag |-> "competitor_mentions",   name |-> SIG_competitive_wins_losses, points |-> 15],
       [flag |-> "product_launches",      name |-> SIG_product_launches,        points |-> 10] >>

\* ICPScorer._calculate_intent_signal_score
calculate_intent_signal_score(parsed, lead_data) ==
      Points(SignalMatch(parsed, lead_data, IntentRows[1].flag, IntentRows[1].name), IntentRows[1].points)
    + Points(SignalMatch(parsed, lead_data, IntentRows[2].flag, IntentRows[2].name), IntentRows[2].points)
    + Points(SignalMatch(parsed, lead_data, IntentRows[3].flag, IntentRows[3].name), IntentRows[3].points)
    + Points(SignalMatch(parsed, lead_data, IntentRows[4].flag, IntentRows[4].name), IntentRows[4].points)
    + Points(SignalMatch(parsed, lead_data, IntentRows[5].flag, IntentRows[5].name), IntentRows[5].points)

\* TimingFlag with .get(flag, True): a flag that is not given counts as set
Mut_TimingFlag(lead_data, flag) == Get(lead_timing(lead_data), flag, TRUE) = TRUE

\* lead_data.get("timing", {}).get(flag)
TimingFlag(lead_data, flag) == Flag(lead_timing(lead_data), flag)

\* calculate_timing_score with seasonal_factors defaulting to True when absent
Mut_calculate_timing_score(lead_data) ==
      Points(TimingFlag(lead_data, "fiscal_calendar_alignment"), 30)
    + Points(TimingFlag(lead_data, "recent_trigger_events"), 40)
    + Points("seasonal_factors" \notin DOMAIN lead_timing(lead_data)
                \/ TimingFlag(lead_data, "seasonal_factors"), 30)

\* ICPScorer._calculate_timing_score
calculate_timing_score(lead_data) ==
      Points(TimingFlag(lead_data, "fiscal_calendar_alignment"), 30)
    + Points(TimingFlag(lead_data, "recent_trigger_events"), 40)
    + Points(TimingFlag(lead_data, "seasonal_factors"), 30)

\* min(100, score)
Min100(score) == IF score < 100 THEN score ELSE 100

\* round(x, 2) of x given in thousandths, in hundredths (ties to even)
Round2(thousandths) ==
    LET q == thousandths \div 10
        r == thousandths % 10
    IN  IF r < 5 THEN q
        ELSE IF r > 5 THEN q + 1
        ELSE IF q % 2 = 0 THEN q ELSE q + 1

\* WeightedSum with the company and persona weights exchanged
Mut_WeightedSum(company, persona, intent, timing) ==
    company * 300 + persona * 400 + intent * 200 + timing * 100

\* the weighted sum of score_lead in thousandths: 0.4, 0.3, 0.2, 0.1
WeightedSum(company, persona, intent, timing) ==
    company * 400 + persona * 300 + intent * 200 + timing * 100

\* ICPScorer.score_lead, in hundredths
score_lead(parsed, lead_data) ==
    LET company_fit_score   == Min100(calculate_company_fit(parsed, lead_data))
        persona_fit_score   == Min100(calculate_persona_fit(parsed, lead_data))
        intent_signal_score == Min100(calculate_intent_signal_score(parsed, lead_data))
        timing_score        == Min100(calculate_timing_score(lead_data))
    IN  Round2(WeightedSum(company_fit_score, persona_fit_score,
                           intent_signal_score, timing_score))

\* categorize_lead with an exclusive hot boundary (> for >=)
Mut_categorize_lead(thresholds, total_score) ==
    IF thresholds = None
    THEN [kind |-> "raise", exception |-> "AttributeError"]
    ELSE IF total_score > thresholds[1].hot THEN [kind |-> "return", value |-> "hot"]
    ELSE IF total_score >= thresholds[1].warm THEN [kind |-> "return", value |-> "warm"]
    ELSE [kind |-> "return", value |-> "cold"]

\* ICPScorer.categorize_lead: thresholds is None when the attribute
\* bucket_thresholds does not exist, and reading it raises AttributeError
categorize_lead(thresholds, total_score) ==
    IF thresholds = None
    THEN [kind |-> "raise", exception |-> "AttributeError"]
    ELSE IF total_score >= thresholds[1].hot THEN [kind |-> "return", value |-> "hot"]
    ELSE IF total_score >= thresholds[1].warm THEN [kind |-> "return", value |-> "warm"]
    ELSE [kind |-> "return", value |-> "cold"]

---------------------------------------------------------------------------
(* Input texts: ICP answers in the style of the wizard's examples and      *)
(* templates (src/icp/wizard.py), and lead field values.                   *)

\* "B2B SaaS"
TXT_b2b_saas ==
    <<"B","2","B"," ","S","a","a","S">>

\* "10-50 employees, $1M-$10M revenue"
TXT_size_example ==
    <<"1","0","-","5","0"," ","e","m","p","l","o","y","e","e","s",","," ","$","1","M","-","$",
      "1","0","M"," ","r","e","v","e","n","u","e">>

\* "North America, Europe"
TXT_north_america ==
    <<"N","o","r","t","h"," ","A","m","e","r","i","c","a",","," ","E","u","r","o","p","e">>

\* "Salesforce, HubSpot"
TXT_tech_full ==
    <<"S","a","l","e","s","f","o","r","c","e",","," ","H","u","b","S","p","o","t">>

\* "B2B, Subscription"
TXT_business_model ==
    <<"B","2","B",","," ","S","u","b","s","c","r","i","p","t","i","o","n">>

\* "Seed, Series A"
TXT_funding_growth ==
    <<"S","e","e","d",","," ","S","e","r","i","e","s"," ","A">>

\* "VP Sales, CRO, Senior, Sales"
TXT_decision_makers ==
    <<"V","P"," ","S","a","l","e","s",","," ","C","R","O",","," ","S","e","n","i","o","r",",",
      " ","S","a","l","e","s">>

\* "Inefficient lead generation"
TXT_pain_points ==
    <<"I","n","e","f","f","i","c","i","e","n","t"," ","l","e","a","d"," ","g","e","n","e","r",
      "a","t","i","o","n">>

\* "Committee decision, VP-level budget"
TXT_buying_behavior ==
    <<"C","o","m","m","i","t","t","e","e"," ","d","e","c","i","s","i","o","n",","," ","V","P",
      "-","l","e","v","e","l"," ","b","u","d","g","e","t">>

\* "funding announcements, job postings, technology changes, competitive wins/losses, product launches"
TXT_all_signals ==
    <<"f","u","n","d","i","n","g"," ","a","n","n","o","u","n","c","e","m","e","n","t","s",",",
      " ","j","o","b"," ","p","o","s","t","i","n","g","s",","," ","t","e","c","h","n","o","l",
      "o","g","y"," ","c","h","a","n","g","e","s",","," ","c","o","m","p","e","t","i","t","i",
      "v","e"," ","w","i","n","s","/","l","o","s","s","e","s",","," ","p","r","o","d","u","c",
      "t"," ","l","a","u","n","c","h","e","s">>

\* "Website visits, content downloads"
TXT_content ==
    <<"W","e","b","s","i","t","e"," ","v","i","s","i","t","s",","," ","c","o","n","t","e","n",
      "t"," ","d","o","w","n","l","o","a","d","s">>

\* "Funding Announcements / Job Postings"
TXT_signals_mixed_case ==
    <<"F","u","n","d","i","n","g"," ","A","n","n","o","u","n","c","e","m","e","n","t","s"," ",
      "/"," ","J","o","b"," ","P","o","s","t","i","n","g","s">>

\* "Job postings for project managers, Recent funding announcements"
TXT_signals_template ==
    <<"J","o","b"," ","p","o","s","t","i","n","g","s"," ","f","o","r"," ","p","r","o","j","e",
      "c","t"," ","m","a","n","a","g","e","r","s",","," ","R","e","c","e","n","t"," ","f","u",
      "n","d","i","n","g"," ","a","n","n","o","u","n","c","e","m","e","n","t","s">>

\* "competitive wins, product launches"
TXT_signals_wins_only ==
    <<"c","o","m","p","e","t","i","t","i","v","e"," ","w","i","n","s",","," ","p","r","o","d",
      "u","c","t"," ","l","a","u","n","c","h","e","s">>

\* "B2B SaaS Tools"
VAL_b2b_saas_tools ==
    <<"B","2","B"," ","S","a","a","S"," ","T","o","o","l","s">>

\* "Retail"
VAL_retail ==
    <<"R","e","t","a","i","l">>

\* "North America (EST)"
VAL_usa ==
    <<"N","o","r","t","h"," ","A","m","e","r","i","c","a"," ","(","E","S","T",")">>

\* "Asia"
VAL_asia ==
    <<"A","s","i","a">>

\* "Salesforce"
VAL_salesforce ==
    <<"S","a","l","e","s","f","o","r","c","e">>

\* "SAP"
VAL_sap ==
    <<"S","A","P">>

\* "Series A"
VAL_series_a ==
    <<"S","e","r","i","e","s"," ","A">>

\* "Bootstrapped"
VAL_bootstrapped ==
    <<"B","o","o","t","s","t","r","a","p","p","e","d">>

\* "VP Sales"
VAL_vp_sales ==
    <<"V","P"," ","S","a","l","e","s">>

\* "Senior"
VAL_senior ==
    <<"S","e","n","i","o","r">>

\* "Sales"
VAL_sales ==
    <<"S","a","l","e","s">>

\* "VP-level budget holder"
VAL_budget_holder ==
    <<"V","P","-","l","e","v","e","l"," ","b","u","d","g","e","t"," ","h","o","l","d","e","r">>

\* "Intern"
VAL_intern ==
    <<"I","n","t","e","r","n">>

\* "Junior"
VAL_junior ==
    <<"J","u","n","i","o","r">>

\* "Finance"
VAL_finance ==
    <<"F","i","n","a","n","c","e">>

\* "End user"
VAL_no_authority ==
    <<"E","n","d"," ","u","s","e","r">>


---------------------------------------------------------------------------
(* ICP definitions.                                                        *)

\* every criterion of the rubrics is named
ICP_FULL ==
    [company_characteristics |->
        [industry_vertical |-> TXT_b2b_saas,
         company_size      |-> TXT_size_example,
         geography         |-> TXT_north_america,
         technology_stack  |-> TXT_tech_full,
         business_model    |-> TXT_business_model,
         funding_growth    |-> TXT_funding_growth],
     buyer_persona |->
        [decision_maker_profile |-> TXT_decision_makers,
         pain_points            |-> TXT_pain_points,
         buying_behavior        |-> TXT_buying_behavior],
     engagement_signals |->
        [intent_signals     |-> TXT_all_signals,
         content_engagement |-> TXT_content]]

\* the end-to-end scenario: industry and company size only
ICP_EXAMPLE ==
    [company_characteristics |->
        [industry_vertical |-> TXT_b2b_saas,
         company_size      |-> TXT_size_example],
     buyer_persona      |-> EmptyDict,
     engagement_signals |-> EmptyDict]

\* ICPWizard.icp_data as __init__ leaves it: three empty groups
ICP_EMPTY ==
    [company_characteristics |-> EmptyDict,
     buyer_persona           |-> EmptyDict,
     engagement_signals      |-> EmptyDict]

\* an ICP definition that only gives intent signals
IcpWithSignals(text) ==
    [company_characteristics |-> EmptyDict,
     buyer_persona           |-> EmptyDict,
     engagement_signals      |-> [intent_signals |-> text]]

\* intent_signals answers: each signal name alone, lists of them, other text
IntentTexts ==
    { SIG_funding_announcements, SIG_job_postings, SIG_technology_changes,
      SIG_competitive_wins_losses, SIG_product_launches,
      TXT_all_signals, TXT_signals_mixed_case, TXT_signals_template,
      TXT_signals_wins_only }

ScorerICPs ==
    {ICP_FULL, ICP_EXAMPLE, ICP_EMPTY, EmptyDict}
    \cup {IcpWithSignals(text) : text \in IntentTexts}

---------------------------------------------------------------------------
(* Lead records: a lead is a dictionary with any of the groups company,    *)
(* contact, signals and timing.                                            *)

COMPANY_EXAMPLE ==
    [industry |-> VAL_b2b_saas_tools, employee_count |-> 30, revenue_estimate |-> 5000000]

COMPANY_FULL ==
    [industry          |-> VAL_b2b_saas_tools,
     employee_count    |-> 30,
     revenue_estimate  |-> 5000000,
     geography         |-> VAL_usa,
     tech_stack        |-> <<VAL_sap, VAL_salesforce>>,
     growth_indicators |-> <<VAL_series_a>>]

COMPANY_NO_MATCH ==
    [industry          |-> VAL_retail,
     employee_count    |-> 500,
     revenue_estimate  |-> 100,
     geography         |-> VAL_asia,
     tech_stack        |-> <<VAL_sap>>,
     growth_indicators |-> <<VAL_bootstrapped>>]

COMPANY_PARTIAL ==
    [industry |-> VAL_retail, employee_count |-> 50, geography |-> VAL_usa]

Companies == {EmptyDict, COMPANY_EXAMPLE, COMPANY_FULL, COMPANY_NO_MATCH, COMPANY_PARTIAL}

CONTACT_FULL ==
    [title           |-> VAL_vp_sales,
     seniority       |-> VAL_senior,
     department      |-> VAL_sales,
     authority_level |-> VAL_budget_holder]

CONTACT_NO_MATCH ==
    [title           |-> VAL_intern,
     seniority       |-> VAL_junior,
     department      |-> VAL_finance,
     authority_level |-> VAL_no_authority]

CONTACT_PARTIAL == [title |-> VAL_vp_sales, department |-> VAL_finance]

Contacts == {EmptyDict, CONTACT_FULL, CONTACT_NO_MATCH, CONTACT_PARTIAL}

SignalFlags ==
    {"recent_funding", "hiring_relevant_roles", "tech_stack_changes",
     "competitor_mentions", "product_launches"}

TimingFlags == {"fiscal_calendar_alignment", "recent_trigger_events", "seasonal_factors"}

\* a group of flags in which exactly the flags of set are True
FlagGroup(flags, set) == [f \in flags |-> f \in set]

SignalGroups == {FlagGroup(SignalFlags, set) : set \in SUBSET SignalFlags}

TimingGroups == {FlagGroup(TimingFlags, set) : set \in SUBSET TimingFlags}

SIGNALS_ALL == FlagGroup(SignalFlags, SignalFlags)

SIGNALS_NONE == FlagGroup(SignalFlags, {})

TIMING_ALL == FlagGroup(TimingFlags, TimingFlags)

TIMING_NONE == FlagGroup(TimingFlags, {})

\* the lead with the given groups
Lead(company, contact, signals, timing) ==
    [company |-> company, contact |-> contact, signals |-> signals, timing |-> timing]

\* a lead with only the company group
CompanyOnly(company) == [company |-> company]

LEAD_FULL == Lead(COMPANY_FULL, CONTACT_FULL, SIGNALS_ALL, TIMING_ALL)

LEAD_EXAMPLE == CompanyOnly(COMPANY_EXAMPLE)

LEAD_NO_MATCH == Lead(COMPANY_NO_MATCH, CONTACT_NO_MATCH, SIGNALS_NONE, TIMING_NONE)

Leads ==
    {EmptyDict, LEAD_EXAMPLE}
    \cup {Lead(c, p, s, t) : c \in Companies, p \in Contacts,
                             s \in {SIGNALS_ALL, SIGNALS_NONE},
                             t \in {TIMING_ALL, TIMING_NONE}}
    \cup {Lead(c, CONTACT_FULL, s, TIMING_NONE) :
             c \in {COMPANY_FULL, COMPANY_NO_MATCH}, s \in SignalGroups}
    \cup {Lead(COMPANY_FULL, CONTACT_FULL, SIGNALS_ALL, t) : t \in TimingGroups}
    \cup {[signals |-> s] : s \in SignalGroups}
    \cup {[timing |-> t] : t \in TimingGroups}

---------------------------------------------------------------------------
(* The scorer on its own: an ICPScorer built from an ICP definition, and   *)
(* calls of score_lead on it.                                              *)

\* EnterpriseSalesAgent.__init__
AgentInit ==
    /\ current_stage = "icp_definition"
    /\ icp_definition = None
    /\ icp_scorer = FALSE
    /\ leads = None
    /\ processed_leads = None
    /\ researched_leads = None
    /\ qualified_leads = None
    /\ engaged_leads = None
    /\ booked_leads = None
    /\ crm_outcomes = << >>
    /\ active_framework = "BANT"
    /\ raised = None

\* ICPScorer.__init__
ScorerInit(icp) ==
    /\ raw_icp_definition = icp
    /\ parsed_icp = ParseIcpDefinition(icp)
    /\ bucket_thresholds = None

Returned(value) == [kind |-> "return", value |-> value]

\* The scorer is built from an ICP definition; the caller holds a lead record.
Init ==
    /\ \E icp \in ScorerICPs : ScorerInit(icp)
    /\ op = "__init__"
    /\ arg \in Leads
    /\ result = None
    /\ AgentInit
    /\ api_keys = {}

\* a call of score_lead(lead_data) on the caller's lead record
ScoreLead ==
    /\ op' = "score_lead"
    /\ result' = Returned(score_lead(parsed_icp, arg))
    /\ UNCHANGED <<raw_icp_definition, parsed_icp, bucket_thresholds, arg, workflow_vars>>

Next == ScoreLead

Spec == Init /\ [][Next]_vars

---------------------------------------------------------------------------
(* Properties of score_lead.                                               *)

\* the four raw sub-scores of the caller's lead under the scorer's ICP
CompanyScore == calculate_company_fit(parsed_icp, arg)

PersonaScore == calculate_persona_fit(parsed_icp, arg)

IntentScore == calculate_intent_signal_score(parsed_icp, arg)

TimingScore == calculate_timing_score(arg)

Scored == op = "score_lead" /\ result.kind = "return"

\* C1: each of the four raw sub-scores lies in 0..100, so min(100, .) never
\* changes a value, and the total returned by score_lead lies in [0, 100].
C1_SubScoresWithinBudget ==
    Scored =>
        /\ \A x \in {CompanyScore, PersonaScore, IntentScore, TimingScore} :
              x \in 0..100 /\ Min100(x) = x
        /\ result.value \in 0..10000

\* C1 witness: score_lead has run on a lead that exhausts the company, persona
\* and timing budgets.
C1_Witness ==
    Scored /\ CompanyScore = 100 /\ PersonaScore = 100 /\ TimingScore = 100

\* the ICP's intent_signals answer lists the signal name: the name stands in the
\* lower-cased text between separators (or the ends of the text), surrounded
\* by white space only
ListsSignal(text, name) ==
    LET t == Lower(text)
        LeftClear(j) ==
            \E b \in 0..j : /\ (b = 0 \/ IsSeparator(t[b]))
                            /\ \A k \in (b + 1)..j : IsSpace(t[k])
        RightClear(j) ==
            \E e \in j..(Len(t) + 1) : /\ (e = Len(t) + 1 \/ IsSeparator(t[e]))
                                       /\ \A k \in j..(e - 1) : IsSpace(t[k])
    IN  \E i \in 1..(Len(t) - Len(name) + 1) :
            /\ \A k \in 1..Len(name) : t[i + k - 1] = name[k]
            /\ LeftClear(i - 1)
            /\ RightClear(i + Len(name))

\* the intent_signals answer of the ICP definition the scorer was built from
IntentSignalsText ==
    Get(Get(raw_icp_definition, "engagement_signals", EmptyDict), "intent_signals", EmptyStr)

\* row r of the intent rubric is satisfied: the flag is set and the name listed
PairSatisfied(r) ==
    /\ Flag(lead_signals(arg), IntentRows[r].flag)
    /\ ListsSignal(IntentSignalsText, IntentRows[r].name)

\* the lead satisfies every criterion of the four rubrics
SatisfiesEveryCriterion ==
    /\ IndustryMatch(parsed_icp, arg) /\ EmployeeMatch(parsed_icp, arg)
    /\ RevenueMatch(parsed_icp, arg) /\ GeographyMatch(parsed_icp, arg)
    /\ TechStackMatch(parsed_icp, arg) /\ GrowthMatch(parsed_icp, arg)
    /\ TitleMatch(parsed_icp, arg) /\ SeniorityMatch(parsed_icp, arg)
    /\ DepartmentMatch(parsed_icp, arg) /\ AuthorityMatch(parsed_icp, arg)
    /\ \A r \in 1..Len(IntentRows) : PairSatisfied(r)
    /\ \A f \in TimingFlags : TimingFlag(arg, f)

\* C2: for an ICP definition that names every criterion and a lead that
\* satisfies every criterion of the four rubrics (all five intent flags, all
\* three timing flags), score_lead returns 100.00.
C2_FullMatchScores100 ==
    (Scored /\ SatisfiesEveryCriterion) => result.value = 10000

\* C3: score_lead returns 0.4*company + 0.3*persona + 0.2*intent + 0.1*timing
\* (10 * total = 4c + 3p + 2i + t); in the end-to-end scenario the company fit
\* is 45 and the total 18.0.
C3_WeightedSum ==
    Scored =>
        /\ result.value =
              10 * (4 * CompanyScore + 3 * PersonaScore + 2 * IntentScore + TimingScore)
        /\ (raw_icp_definition = ICP_EXAMPLE /\ arg = LEAD_EXAMPLE) =>
              (CompanyScore = 45 /\ result.value = 1800)

\* C3 witness: the end-to-end scenario has been scored.
C3_Witness ==
    Scored /\ raw_icp_definition = ICP_EXAMPLE /\ arg = LEAD_EXAMPLE

\* no criterion of any of the four rubrics matches
NoCriterionMatches ==
    /\ ~IndustryMatch(parsed_icp, arg) /\ ~EmployeeMatch(parsed_icp, arg)
    /\ ~RevenueMatch(parsed_icp, arg) /\ ~GeographyMatch(parsed_icp, arg)
    /\ ~TechStackMatch(parsed_icp, arg) /\ ~GrowthMatch(parsed_icp, arg)
    /\ ~TitleMatch(parsed_icp, arg) /\ ~SeniorityMatch(parsed_icp, arg)
    /\ ~DepartmentMatch(parsed_icp, arg) /\ ~AuthorityMatch(parsed_icp, arg)
    /\ \A r \in 1..Len(IntentRows) : ~PairSatisfied(r)
    /\ \A f \in TimingFlags : ~TimingFlag(arg, f)

\* C4: for a lead in which no criterion of any of the four rubrics matches,
\* score_lead returns 0.0.
C4_NoMatchScoresZero ==
    (Scored /\ NoCriterionMatches) => result.value = 0

\* C4 witness: score_lead has run on a lead that carries company data and a set
\* intent flag, under an ICP that lists other signals, and nothing matches.
C4_Witness ==
    /\ Scored
    /\ NoCriterionMatches
    /\ Flag(lead_signals(arg), "recent_funding")
    /\ Get(lead_company(arg), "industry", EmptyStr) # EmptyStr
    /\ parsed_icp.engagement_signals.intent_signals # << >>

\* C5: the intent-signal sub-score gains the points of each of the five pairs
\* exactly when the lead's flag is set and the ICP's intent_signals text lists
\* that signal name (in particular +15 for competitor_mentions with
\* "competitive wins/losses").
C5_IntentPairsAwarded ==
    Scored =>
        IntentScore =   Points(PairSatisfied(1), 30) + Points(PairSatisfied(2), 25)
                      + Points(PairSatisfied(3), 20) + Points(PairSatisfied(4), 15)
                      + Points(PairSatisfied(5), 10)

---------------------------------------------------------------------------
(* The bucket classifier on its own.  The class never sets                 *)
(* bucket_thresholds; a caller that wants buckets has to assign the        *)
(* attribute from outside.                                                 *)

\* candidate thresholds, in hundredths
ThresholdValues == {0, 5000, 8000, 10000}

\* scores handed to categorize_lead, in hundredths: every value score_lead can
\* return, and the neighbours of the thresholds
ScoreValues ==
    {50 * k : k \in 0..200} \cup {h - 1 : h \in ThresholdValues} \cup {h + 1 : h \in ThresholdValues}

InitBucket ==
    /\ \E icp \in {ICP_EXAMPLE, ICP_FULL} : ScorerInit(icp)
    /\ op = "__init__"
    /\ arg \in ScoreValues
    /\ result = None
    /\ AgentInit
    /\ api_keys = {}

\* the caller assigns scorer.bucket_thresholds = {"hot": hot, "warm": warm}
SetBucketThresholds(hot, warm) ==
    /\ bucket_thresholds' = Some([hot |-> hot, warm |-> warm])
    /\ op' = "set_thresholds"
    /\ result' = None
    /\ UNCHANGED <<raw_icp_definition, parsed_icp, arg, workflow_vars>>

\* a call of categorize_lead(total_score) on the caller's score
CategorizeLead ==
    /\ op' = "categorize_lead"
    /\ result' = categorize_lead(bucket_thresholds, arg)
    /\ UNCHANGED <<raw_icp_definition, parsed_icp, bucket_thresholds, arg, workflow_vars>>

NextBucket ==
    \/ \E hot \in ThresholdValues, warm \in ThresholdValues : SetBucketThresholds(hot, warm)
    \/ CategorizeLead

SpecBucket == InitBucket /\ [][NextBucket]_vars

\* C6: categorize_lead on a scorer without configured thresholds is a defined,
\* reported configuration error ("thresholds not configured"), surfaced to the
\* caller as that error; no bucket label is returned by default.
C6_ThresholdsNotConfiguredError ==
    (op = "categorize_lead" /\ bucket_thresholds = None) =>
        result = [kind |-> "raise", exception |-> "thresholds not configured"]

\* C7: with thresholds hot = H and warm = W configured (W <= H), categorize_lead(s)
\* returns "hot" iff s >= H, "warm" iff W <= s < H and "cold" iff s < W; for
\* H = 80, W = 50: 85 and 80 give "hot", 60 gives "warm", 10 gives "cold".
C7_BucketBoundaries ==
    (op = "categorize_lead" /\ bucket_thresholds # None) =>
        LET H == bucket_thresholds[1].hot
            W == bucket_thresholds[1].warm
        IN  W <= H =>
              /\ result.kind = "return"
              /\ result.value = "hot" <=> arg >= H
              /\ result.value = "warm" <=> (W <= arg /\ arg < H)
              /\ result.value = "cold" <=> arg < W
              /\ (H = 8000 /\ W = 5000) =>
                    /\ arg \in {8500, 8000} => result.value = "hot"
                    /\ arg = 6000 => result.value = "warm"
                    /\ arg = 1000 => result.value = "cold"

\* C7 witness: with hot = 80 and warm = 50 the boundary score 80 was classified.
C7_Witness ==
    /\ op = "categorize_lead"
    /\ bucket_thresholds = Some([hot |-> 8000, warm |-> 5000])
    /\ arg = 8000
    /\ result = Returned("hot")

---------------------------------------------------------------------------
(* The parser on its own: company_size answers written from numbers, and   *)
(* the construction of a scorer from them.                                 *)

\* " employees"
TXT_employees_suffix ==
    <<" ","e","m","p","l","o","y","e","e","s">>

\* "M revenue"
TXT_revenue_suffix ==
    <<"M"," ","r","e","v","e","n","u","e">>

\* "about "
TXT_embed_before ==
    <<"a","b","o","u","t"," ">>

\* ", Seed/Series A"
TXT_embed_after ==
    <<","," ","S","e","e","d","/","S","e","r","i","e","s"," ","A">>

\* "1000+ employees, $500M+ revenue"
TXT_size_open_ended ==
    <<"1","0","0","0","+"," ","e","m","p","l","o","y","e","e","s",","," ","$","5","0","0","M",
      "+"," ","r","e","v","e","n","u","e">>

\* "10 - 50 employees, $1M - $10M revenue"
TXT_size_spaced_dash ==
    <<"1","0"," ","-"," ","5","0"," ","e","m","p","l","o","y","e","e","s",","," ","$","1","M",
      " ","-"," ","$","1","0","M"," ","r","e","v","e","n","u","e">>

\* "10-50 staff, 1M-10M revenue"
TXT_size_other_words ==
    <<"1","0","-","5","0"," ","s","t","a","f","f",","," ","1","M","-","1","0","M"," ","r","e",
      "v","e","n","u","e">>

\* "Seed, Series A"
TXT_size_growth_stage ==
    <<"S","e","e","d",","," ","S","e","r","i","e","s"," ","A">>


\* "<a>-<b> employees"
EmployeesText(a, b) == Digits(a) \o <<"-">> \o Digits(b) \o TXT_employees_suffix

\* "$<a>M-$<b>M revenue"
RevenueText(a, b) ==
    <<"$">> \o Digits(a) \o <<"M", "-", "$">> \o Digits(b) \o TXT_revenue_suffix

RangeBounds == 0..MaxBoundValue

\* what a company_size answer says: an employee range, a revenue range (in
\* millions), both or neither; embedded answers carry other words around them
SizeCases ==
    LET pairs == RangeBounds \X RangeBounds
    IN       {[emp |-> Some(e), rev |-> None, embedded |-> x, text |-> EmptyStr] :
                 e \in pairs, x \in BOOLEAN}
        \cup {[emp |-> None, rev |-> Some(r), embedded |-> x, text |-> EmptyStr] :
                 r \in pairs, x \in BOOLEAN}
        \cup {[emp |-> Some(e), rev |-> Some(<<e[2], e[1]>>), embedded |-> x, text |-> EmptyStr] :
                 e \in pairs, x \in BOOLEAN}
        \cup {[emp |-> Some(<<10, 50>>), rev |-> Some(r), embedded |-> x, text |-> EmptyStr] :
                 r \in pairs, x \in BOOLEAN}
        \cup {[emp |-> None, rev |-> None, embedded |-> FALSE, text |-> t] :
                 t \in {EmptyStr, TXT_size_open_ended, TXT_size_spaced_dash,
                        TXT_size_other_words, TXT_size_growth_stage}}

\* the company_size answer of a case
SizeText(case) ==
    LET e == IF case.emp # None
             THEN EmployeesText(case.emp[1][1], case.emp[1][2]) ELSE EmptyStr
        r == IF case.rev # None
             THEN RevenueText(case.rev[1][1], case.rev[1][2]) ELSE EmptyStr
        both == IF case.emp # None /\ case.rev # None
                THEN e \o <<",", " ">> \o r ELSE e \o r
    IN  IF case.emp = None /\ case.rev = None THEN case.text
        ELSE IF case.embedded THEN TXT_embed_before \o both \o TXT_embed_after
        ELSE both

\* the scorer is about to be built from an ICP definition with this answer
InitParse ==
    /\ arg \in SizeCases
    /\ raw_icp_definition =
          [company_characteristics |-> [industry_vertical |-> TXT_b2b_saas,
                                        company_size      |-> SizeText(arg)]]
    /\ parsed_icp = None
    /\ bucket_thresholds = None
    /\ op = "new"
    /\ result = None
    /\ AgentInit
    /\ api_keys = {}

\* ICPScorer.__init__
Construct ==
    /\ op = "new"
    /\ op' = "__init__"
    /\ raw_icp_definition' = new_scorer(raw_icp_definition).raw_icp_definition
    /\ parsed_icp' = new_scorer(raw_icp_definition).parsed_icp
    /\ result' = new_scorer(raw_icp_definition).result
    /\ UNCHANGED <<bucket_thresholds, arg, workflow_vars>>

NextParse == Construct

SpecParse == InitParse /\ [][NextParse]_vars

\* the range a case states: both bounds scaled, or null bounds
StatedRange(pair, scale) ==
    IF pair = None THEN [min |-> None, max |-> None]
    ELSE [min |-> Some(pair[1][1] * scale), max |-> Some(pair[1][2] * scale)]

\* C10: a company_size text containing "<a>-<b> employees" parses to
\* employee_count_range {min: a, max: b}, one containing "$<a>M-$<b>M revenue"
\* to revenue_range {min: a*10^6, max: b*10^6}; the two patterns match
\* independently, and a text matching neither gives null bounds for both
\* ranges, without an exception.
C10_SizeRangesParsed ==
    op = "__init__" =>
        /\ result.kind = "return"
        /\ parsed_icp.company_characteristics.employee_count_range = StatedRange(arg.emp, 1)
        /\ parsed_icp.company_characteristics.revenue_range = StatedRange(arg.rev, 1000000)

\* C10 witness: an embedded answer with both ranges has been parsed to 10..50
\* employees and a revenue range with bounds.
C10_Witness ==
    /\ op = "__init__"
    /\ arg.embedded
    /\ parsed_icp.company_characteristics.employee_count_range = [min |-> Some(10), max |-> Some(50)]
    /\ parsed_icp.company_characteristics.revenue_range = [min |-> Some(1000000), max |-> Some(10000000)]

---------------------------------------------------------------------------
(* Lead discovery (src/lead_discovery).  What the search services answer   *)
(* is the environment's choice; names and URLs are opaque strings, the     *)
(* fields the scorer would read are texts.                                 *)

\* d[k] = v
Put(d, k, v) == [x \in (DOMAIN d) \cup {k} |-> IF x = k THEN v ELSE d[x]]

Raised(exception) == [kind |-> "raise", exception |-> exception]

\* the API keys of the environment (os.getenv) that the workflow reads
EnvKeys ==
    {"SERPAPI_API_KEY", "COMPANY_DATABASE_API_KEY", "ELEVENLABS_API_KEY",
     "CALENDAR_API_KEY", "CRM_API_KEY"}

\* entries of results["organic_results"]; any key may be missing
OrganicResults ==
    { [title |-> "Acme Cloud", link |-> "https://acme.example/about",
       snippet |-> "B2B SaaS tools", position |-> 1],
      [link |-> "https://initech.example"] }

\* entries of database_results["companies"]; any key may be missing
DatabaseCompanies ==
    { [name |-> "Acme Cloud", website |-> "https://acme.example",
       industry |-> VAL_b2b_saas_tools, employee_count |-> 30,
       revenue_range |-> "$1M-$10M", tech_stack |-> <<VAL_salesforce>>],
      [name |-> "Globex"] }

\* the lists of at most MaxResults elements of a set
ListsOf(set) == UNION {[1..n -> set] : n \in 0..MaxResults}

\* one element of parsed_leads in _parse_serpapi_results
ParseSerpapiResult(r) ==
    [company_name |-> Get(r, "title", "Unknown Company"),
     website      |-> Get(r, "link", "Unknown URL"),
     description  |-> Get(r, "snippet", "No description available"),
     search_rank  |-> Get(r, "position", 0),
     source       |-> "SERPAPI Web Search"]

\* one element of parsed_leads in _parse_company_database_results
ParseCompanyDatabaseResult(r) ==
    [company_name   |-> Get(r, "name", "Unknown Company"),
     website        |-> Get(r, "website", "Unknown URL"),
     industry       |-> Get(r, "industry", "Inferred from ICP"),
     employee_count |-> Get(r, "employee_count", "Unknown"),
     revenue_range  |-> Get(r, "revenue_range", "Unknown"),
     tech_stack     |-> Get(r, "tech_stack", << >>),
     source         |-> "Company Database API"]

\* normalized_lead in _normalize_lead_data; id stands for str(uuid.uuid4())
NormalizedLead(lead, id) ==
    [id |-> id,
     company_fit |->
        [industry_vertical |-> Get(lead, "industry", "Unknown"),
         company_size      |-> Get(lead, "employee_count", "Unknown"),
         revenue_range     |-> Get(lead, "revenue_range", "Unknown"),
         tech_stack        |-> Get(lead, "tech_stack", << >>),
         source            |-> Get(lead, "source", "Unknown")],
     persona_fit |->
        [decision_maker_available |-> FALSE,
         pain_points_available    |-> FALSE],
     intent_signals |->
        [search_rank |-> Get(lead, "search_rank", 0),
         description |-> Get(lead, "description", "No intent data available")],
     timing_fit |-> [funding_events_available |-> FALSE],
     raw_lead_data |-> lead]

\* LeadDiscoveryEngine._normalize_lead_data; ids are unique per call and source
normalize_lead_data(parsed_leads, source) ==
    [i \in 1..Len(parsed_leads) |-> NormalizedLead(parsed_leads[i], <<source, i>>)]

\* _search_web: no key, or a failed request, gives []
search_web(keys, organic) ==
    IF "SERPAPI_API_KEY" \notin keys THEN << >>
    ELSE normalize_lead_data([i \in 1..Len(organic) |-> ParseSerpapiResult(organic[i])], "web")

\* _search_company_database: no key, or a failed request, gives []
search_company_database(keys, companies) ==
    IF "COMPANY_DATABASE_API_KEY" \notin keys THEN << >>
    ELSE normalize_lead_data(
             [i \in 1..Len(companies) |-> ParseCompanyDatabaseResult(companies[i])], "database")

\* _generate_voice_outreach: None without a key; with one, the script reads
\* normalized_lead['company_fit']['company_name'] inside try/except, and a
\* KeyError there is logged and gives None
generate_voice_outreach(keys, normalized_lead) ==
    IF "ELEVENLABS_API_KEY" \notin keys THEN None
    ELSE IF "company_name" \notin DOMAIN normalized_lead.company_fit THEN None
    ELSE Some("audio")

\* _generate_email_outreach: reads normalized_lead['company_fit']['company_name']
\* outside any try
generate_email_outreach(normalized_lead) ==
    IF "company_name" \notin DOMAIN normalized_lead.company_fit
    THEN Raised("KeyError")
    ELSE Returned("email")

\* _generate_sms_outreach: reads the same key
generate_sms_outreach(normalized_lead) ==
    IF "company_name" \notin DOMAIN normalized_lead.company_fit
    THEN Raised("KeyError")
    ELSE Returned("sms")

\* the outreach fields discover_leads adds to one lead
WithOutreach(keys, lead) ==
    LET voice == generate_voice_outreach(keys, lead)
        v     == IF voice # None THEN Put(lead, "voice_outreach", voice[1]) ELSE lead
        e     == Put(v, "email_outreach", generate_email_outreach(lead).value)
    IN  Put(e, "sms_outreach", generate_sms_outreach(lead).value)

\* LeadDiscoveryEngine.discover_leads: the leads of both searches with their
\* outreach, or the exception of the first lead whose outreach raises; found is
\* the list built before the outreach loops
discover_leads(keys, organic, companies) ==
    LET found == search_web(keys, organic) \o search_company_database(keys, companies)
        bad   == {i \in 1..Len(found) :
                     \/ generate_email_outreach(found[i]).kind = "raise"
                     \/ generate_sms_outreach(found[i]).kind = "raise"}
    IN  IF bad # {}
        THEN [kind |-> "raise", exception |-> "KeyError", found |-> found]
        ELSE [kind |-> "return", found |-> found,
              value |-> [i \in 1..Len(found) |-> WithOutreach(keys, found[i])]]

\* urlparse(url).netloc for the URLs of the model: the host between "//" and
\* the next "/", and the empty string for a text without "//"
Netloc(url) ==
    CASE url = "https://acme.example"       -> "acme.example"
      [] url = "https://acme.example/about" -> "acme.example"
      [] url = "https://initech.example"    -> "initech.example"
      [] url = "acme.example"               -> ""
      [] url = "Unknown URL"                -> ""

\* LeadDataProcessor._normalize_company_info
normalize_company_info(lead) ==
    IF "website" \in DOMAIN lead /\ lead.website # ""
    THEN Put(lead, "domain", Netloc(lead.website))
    ELSE lead

\* LeadDataProcessor._extract_contact_info: email is the first address found
\* in contact_raw, or None
extract_contact_info(lead) ==
    IF "contact_raw" \in DOMAIN lead
    THEN Put(lead, "email", IF lead.contact_raw.emails # << >>
                            THEN Some(lead.contact_raw.emails[1]) ELSE None)
    ELSE lead

\* LeadDataProcessor.process_lead_data
process_lead_data(raw_lead_data) ==
    [i \in 1..Len(raw_lead_data) |->
        extract_contact_info(normalize_company_info(raw_lead_data[i]))]

\* the scoring loop of run_workflow: every lead gets icp_score and lead_bucket,
\* unless categorize_lead raises; then the loop stops with the leads as they are
ScoreAndCategorize(parsed, thresholds, processed) ==
    LET score(i)  == score_lead(parsed, processed[i])
        bucket(i) == categorize_lead(thresholds, score(i))
        bad       == {i \in 1..Len(processed) : bucket(i).kind = "raise"}
        first     == CHOOSE i \in bad : \A j \in bad : i <= j
        Done(i)   == Put(Put(processed[i], "icp_score", score(i)),
                         "lead_bucket", bucket(i).value)
    IN  IF bad = {}
        THEN [kind |-> "return", value |-> [i \in 1..Len(processed) |-> Done(i)]]
        ELSE [kind |-> "raise", exception |-> bucket(first).exception,
              value |-> [i \in 1..Len(processed) |->
                            IF i < first THEN Done(i)
                            ELSE IF i = first
                            THEN Put(processed[i], "icp_score", score(i))
                            ELSE processed[i]]]

---------------------------------------------------------------------------
(* The stages after lead discovery (src/pre_qualification,                 *)
(* src/qualification, src/engagement, src/booking, src/handoff).           *)

\* one iteration of ResearchEngine.run: a lead without a domain is passed on
\* as it is, any other lead gets the four research fields
research_lead(lead) ==
    IF "domain" \notin DOMAIN lead \/ lead.domain = ""
    THEN lead
    ELSE Put(Put(Put(Put(lead,
             "financials", [revenue_range |-> "$10M-$50M", funding_stage |-> "Series B",
                            year_over_year_growth |-> 25]),
             "decision_maker_background", [title |-> "VP of Sales", decision_authority |-> "High"]),
             "recent_news", <<"Company launches new enterprise platform",
                              "Company secures strategic partnership">>),
             "tech_stack_analysis", <<"Python", "React", "AWS", "Salesforce">>)

\* research_run skipping the leads without a domain
Mut_research_run(leads_) ==
    LET HasDomain(lead) == "domain" \in DOMAIN lead /\ lead.domain # ""
        with_domain     == SelectSeq(leads_, HasDomain)
    IN  [i \in 1..Len(with_domain) |-> research_lead(with_domain[i])]

\* ResearchEngine.run
research_run(leads_) ==
    [i \in 1..Len(leads_) |-> research_lead(leads_[i])]

\* bant_score with 20 points for the need
Mut_bant_score(lead) ==
      (IF Flag(lead, "budget_indicated") THEN 30 ELSE 0)
    + (IF Get(lead, "contact_authority", "") \in {"Decision Maker", "Influencer"} THEN 30 ELSE 0)
    + (IF Flag(lead, "identified_need") THEN 20 ELSE 0)
    + (IF Get(lead, "purchase_timeline", "") \in {"0-3 months", "3-6 months"} THEN 15 ELSE 0)

\* bant_score in QualificationManager._qualify_with_bant
bant_score(lead) ==
      (IF Flag(lead, "budget_indicated") THEN 30 ELSE 0)
    + (IF Get(lead, "contact_authority", "") \in {"Decision Maker", "Influencer"} THEN 30 ELSE 0)
    + (IF Flag(lead, "identified_need") THEN 25 ELSE 0)
    + (IF Get(lead, "purchase_timeline", "") \in {"0-3 months", "3-6 months"} THEN 15 ELSE 0)

\* QualificationManager._qualify_with_bant (the active framework of the agent)
qualify_with_bant(lead) ==
    Put(Put(lead, "qualification_score", bant_score(lead)),
        "qualified", bant_score(lead) >= 70)

\* meddic_score in QualificationManager._qualify_with_meddic
meddic_score(lead) ==
      (IF Flag(lead, "business_metrics") THEN 20 ELSE 0)
    + (IF Get(lead, "contact_role", "") = "Economic Buyer" THEN 20 ELSE 0)
    + (IF Flag(lead, "decision_criteria") THEN 15 ELSE 0)
    + (IF Flag(lead, "decision_process") THEN 15 ELSE 0)
    + (IF Flag(lead, "identified_pain") THEN 15 ELSE 0)
    + (IF Flag(lead, "internal_champion") THEN 15 ELSE 0)

\* QualificationManager._qualify_with_meddic
qualify_with_meddic(lead) ==
    Put(Put(lead, "qualification_score", meddic_score(lead)),
        "qualified", meddic_score(lead) >= 80)

\* champ_score in QualificationManager._qualify_with_champ
champ_score(lead) ==
      (IF Flag(lead, "identified_challenges") THEN 30 ELSE 0)
    + (IF Get(lead, "contact_authority", "") = "Decision Maker" THEN 30 ELSE 0)
    + (IF Flag(lead, "budget_approved") THEN 25 ELSE 0)
    + (IF Get(lead, "initiative_priority", "") = "High" THEN 15 ELSE 0)

\* qualify_with_champ with the threshold of BANT
Mut_qualify_with_champ(lead) ==
    Put(Put(lead, "qualification_score", champ_score(lead)),
        "qualified", champ_score(lead) >= 70)

\* QualificationManager._qualify_with_champ
qualify_with_champ(lead) ==
    Put(Put(lead, "qualification_score", champ_score(lead)),
        "qualified", champ_score(lead) >= 75)

\* QualificationManager._qualify_with_custom
qualify_with_custom(lead) ==
    Put(Put(lead, "qualification_score", 0), "qualified", FALSE)

\* QualificationManager.supported_frameworks
supported_frameworks == <<"BANT", "MEDDIC", "CHAMP", "Custom">>

\* validate_framework falling back to the last supported framework
Mut_validate_framework(framework) ==
    IF \A i \in 1..Len(supported_frameworks) : supported_frameworks[i] # framework
    THEN "Custom"
    ELSE framework

\* QualificationManager._validate_framework
validate_framework(framework) ==
    IF \A i \in 1..Len(supported_frameworks) : supported_frameworks[i] # framework
    THEN "BANT"
    ELSE framework

\* the branch of the loop of QualificationManager.run for one lead
qualify(framework, lead) ==
    CASE framework = "BANT"   -> qualify_with_bant(lead)
      [] framework = "MEDDIC" -> qualify_with_meddic(lead)
      [] framework = "CHAMP"  -> qualify_with_champ(lead)
      [] framework = "Custom" -> qualify_with_custom(lead)

\* lead['qualified'], the filter of QualificationManager.run
IsQualified(lead) == lead.qualified

\* QualificationManager.run: the lead objects of the input list as the loop
\* leaves them, and the list it returns
qualification_run(framework, processed) ==
    LET qualified == [i \in 1..Len(processed) |-> qualify(framework, processed[i])]
    IN  [processed_leads |-> qualified,
         filtered_leads  |-> SelectSeq(qualified, IsQualified)]

\* the keys of EngagementOrchestrator.email_sequence_templates, with the
\* delay_hours of their messages
email_sequence_templates ==
    [hot_lead |-> <<0, 24, 48>>, warm_lead |-> <<0, 72>>]

\* EngagementOrchestrator._create_email_sequence: the template is looked up
\* under the lead's bucket label, "warm_lead" being the fallback
create_email_sequence(lead) ==
    Get(email_sequence_templates, Get(lead, "lead_bucket", "warm"),
        email_sequence_templates["warm_lead"])

\* one iteration of EngagementOrchestrator.run; sent is what
\* _send_voice_message answers when the ElevenLabs call is made
engage_lead(keys, lead, sent) ==
    LET e == Put(lead, "email_sequence", create_email_sequence(lead))
    IN  IF Get(lead, "lead_bucket", "") = "hot"
        THEN Put(e, "voice_message_sent",
                 /\ "ELEVENLABS_API_KEY" \in keys
                 /\ "contact_phone" \in DOMAIN lead
                 /\ sent)
        ELSE e

\* MeetingBooker.schedule_meeting
schedule_meeting(keys) ==
    IF "CALENDAR_API_KEY" \notin keys
    THEN [scheduled |-> FALSE, message |-> "Missing API key"]
    ELSE [scheduled |-> TRUE, meeting_details |-> "Discovery Call"]

\* book_lead scheduling a meeting for every lead
Mut_book_lead(keys, lead) ==
    Put(lead, "meeting_booking", schedule_meeting(keys))

\* one iteration of MeetingBooker.run
book_lead(keys, lead) ==
    IF Flag(lead, "email_sequence_responded") \/ Flag(lead, "voice_message_responded")
    THEN Put(lead, "meeting_booking", schedule_meeting(keys))
    ELSE lead

\* CRMHandler.create_crm_deal; created is the answer of the CRM service
create_crm_deal(keys, created) ==
    IF "CRM_API_KEY" \notin keys
    THEN [deal_created |-> FALSE, message |-> "Missing API key"]
    ELSE [deal_created |-> created]

\* lead.get("meeting_booking", {}).get("scheduled")
IsScheduled(lead) ==
    Flag(Get(lead, "meeting_booking", EmptyDict), "scheduled")

\* LearningEngine.record_crm_outcome: the outcome appended to crm_outcomes
crm_outcome(lead, crm_result) ==
    [lead_id           |-> Get(lead, "id", None),
     initial_icp_score |-> IF "icp_score" \in DOMAIN lead THEN Some(lead.icp_score) ELSE None,
     crm_deal_created  |-> crm_result.deal_created,
     lead_data         |-> lead]

\* o.get("crm_deal_created") is truthy
DealCreated(outcome) == outcome.crm_deal_created

DealFailed(outcome) == ~outcome.crm_deal_created

\* sum([o.get("initial_icp_score", 0) for o in deals]): the key is always
\* there, so a lead without icp_score contributes None, and int + None raises
RECURSIVE ScoreSum(_)
ScoreSum(deals) ==
    IF deals = << >> THEN Some(0)
    ELSE IF Head(deals).initial_icp_score = None \/ ScoreSum(Tail(deals)) = None
         THEN None
         ELSE Some(Head(deals).initial_icp_score[1] + ScoreSum(Tail(deals))[1])

\* LearningEngine._generate_suggestions for leads that carry no company_fit
\* and no pain_points: the kinds of the suggestions, or the exception
generate_suggestions(successful_deals, failed_deals) ==
    LET WithRevenue(o) == "revenue_range" \in DOMAIN Get(o.lead_data, "financials", EmptyDict)
        revenue  == IF SelectSeq(successful_deals, WithRevenue) # << >>
                    THEN <<"revenue ranges">> ELSE << >>
        s        == ScoreSum(successful_deals)
        f        == ScoreSum(failed_deals)
        both     == successful_deals # << >> /\ failed_deals # << >>
        compared == IF ~both THEN << >>
                    ELSE IF 10 * s[1] * Len(failed_deals) > 11 * f[1] * Len(successful_deals)
                         THEN <<"higher scores succeed">>
                    ELSE IF 10 * f[1] * Len(successful_deals) > 11 * s[1] * Len(failed_deals)
                         THEN <<"high scores fail">>
                    ELSE << >>
    IN  IF both /\ (s = None \/ f = None)
        THEN Raised("TypeError")
        ELSE Returned(IF revenue \o compared = << >> THEN <<"no pattern">>
                      ELSE revenue \o compared)

\* LearningEngine.analyze_outcomes
analyze_outcomes(outcomes) ==
    IF outcomes = << >>
    THEN Returned([insights |-> "No data to analyze.", suggestions |-> << >>])
    ELSE LET successful_deals == SelectSeq(outcomes, DealCreated)
             failed_deals     == SelectSeq(outcomes, DealFailed)
             insights == [total_outcomes   |-> Len(outcomes),
                          successful_deals |-> Len(successful_deals),
                          failed_deals     |-> Len(failed_deals),
                          \* in whole percent
                          success_rate     |-> (Len(successful_deals) * 100) \div Len(outcomes)]
             suggestions == generate_suggestions(successful_deals, failed_deals)
         IN  IF suggestions.kind = "raise" THEN suggestions
             ELSE Returned([insights |-> insights, suggestions |-> suggestions.value])

---------------------------------------------------------------------------
(* EnterpriseSalesAgent.run_workflow: one action per stage.  An exception  *)
(* raised inside a stage leaves run_workflow; the stage is then not        *)
(* completed and current_stage keeps its value.                            *)

\* what ICPWizard.run returns: the answers typed in, or a template
WizardResults == {ICP_FULL, ICP_EXAMPLE}

Running(stage) == current_stage = stage /\ raised = None

InitWorkflow ==
    /\ AgentInit
    /\ api_keys \in SUBSET EnvKeys
    /\ raw_icp_definition = None
    /\ parsed_icp = None
    /\ bucket_thresholds = None
    /\ op = "new"
    /\ arg = None
    /\ result = None

\* next_stage with the booking stage handing back to the qualification stage
Mut_next_stage(stage) ==
    CASE stage = "icp_definition"             -> "lead_discovery"
      [] stage = "lead_discovery"             -> "pre_qualification_research"
      [] stage = "pre_qualification_research" -> "qualification"
      [] stage = "qualification"              -> "engagement"
      [] stage = "engagement"                 -> "booking"
      [] stage = "booking"                    -> "qualification"
      [] stage = "handoff"                    -> ""

\* the stage that the branch of a stage assigns to current_stage when it is
\* done (lines 53, 64, 68, 72, 76, 80, 84; "" stands for None)
next_stage(stage) ==
    CASE stage = "icp_definition"             -> "lead_discovery"
      [] stage = "lead_discovery"             -> "pre_qualification_research"
      [] stage = "pre_qualification_research" -> "qualification"
      [] stage = "qualification"              -> "engagement"
      [] stage = "engagement"                 -> "booking"
      [] stage = "booking"                    -> "handoff"
      [] stage = "handoff"                    -> ""

\* stage "icp_definition"
IcpDefinitionStage ==
    /\ Running("icp_definition")
    /\ \E icp \in WizardResults :
          /\ icp_definition' = Some(icp)
          /\ raw_icp_definition' = icp
          /\ parsed_icp' = ParseIcpDefinition(icp)
    /\ icp_scorer' = TRUE
    /\ op' = "__init__"
    /\ current_stage' = next_stage("icp_definition")
    /\ UNCHANGED <<bucket_thresholds, arg, result, leads, processed_leads,
                   researched_leads, qualified_leads, engaged_leads, booked_leads,
                   crm_outcomes, api_keys, active_framework,
                   raised>>

\* stage "lead_discovery": discovery, processing, then the scoring loop
LeadDiscoveryStage ==
    /\ Running("lead_discovery")
    /\ \E organic \in ListsOf(OrganicResults), companies \in ListsOf(DatabaseCompanies) :
          LET raw_leads == discover_leads(api_keys, organic, companies)
              scored    == ScoreAndCategorize(parsed_icp, bucket_thresholds,
                                              process_lead_data(raw_leads.value))
          IN  /\ leads' = Some(raw_leads.found)
              /\ IF raw_leads.kind = "raise"
                 THEN /\ raised' = Some(raw_leads.exception)
                      /\ UNCHANGED <<processed_leads, current_stage>>
                 ELSE /\ processed_leads' = Some(scored.value)
                      /\ IF scored.kind = "raise"
                         THEN /\ raised' = Some(scored.exception)
                              /\ UNCHANGED current_stage
                         ELSE /\ current_stage' = next_stage("lead_discovery")
                              /\ UNCHANGED raised
    /\ op' = "run_workflow"
    /\ UNCHANGED <<raw_icp_definition, parsed_icp, bucket_thresholds, arg, result,
                   icp_definition, icp_scorer, researched_leads, qualified_leads,
                   engaged_leads, booked_leads, crm_outcomes, api_keys,
                   active_framework>>

\* stage "pre_qualification_research"
PreQualificationResearchStage ==
    /\ Running("pre_qualification_research")
    /\ researched_leads' =
          Some([i \in 1..Len(processed_leads[1]) |-> research_lead(processed_leads[1][i])])
    /\ current_stage' = next_stage("pre_qualification_research")
    /\ UNCHANGED <<scorer_vars, icp_definition, icp_scorer, leads, processed_leads,
                   qualified_leads, engaged_leads, booked_leads, crm_outcomes,
                   api_keys, active_framework,
                   raised>>

\* stage "qualification"
QualificationStage ==
    /\ Running("qualification")
    /\ qualified_leads' =
          Some(qualification_run(active_framework, researched_leads[1]).filtered_leads)
    /\ current_stage' = next_stage("qualification")
    /\ UNCHANGED <<scorer_vars, icp_definition, icp_scorer, leads, processed_leads,
                   researched_leads, engaged_leads, booked_leads, crm_outcomes,
                   api_keys, active_framework,
                   raised>>

\* stage "engagement"
EngagementStage ==
    /\ Running("engagement")
    /\ \E sent \in [1..Len(qualified_leads[1]) -> BOOLEAN] :
          engaged_leads' =
             Some([i \in 1..Len(qualified_leads[1]) |->
                      engage_lead(api_keys, qualified_leads[1][i], sent[i])])
    /\ current_stage' = next_stage("engagement")
    /\ UNCHANGED <<scorer_vars, icp_definition, icp_scorer, leads, processed_leads,
                   researched_leads, qualified_leads, booked_leads, crm_outcomes,
                   api_keys, active_framework,
                   raised>>

\* stage "booking"
BookingStage ==
    /\ Running("booking")
    /\ booked_leads' =
          Some([i \in 1..Len(engaged_leads[1]) |-> book_lead(api_keys, engaged_leads[1][i])])
    /\ current_stage' = next_stage("booking")
    /\ UNCHANGED <<scorer_vars, icp_definition, icp_scorer, leads, processed_leads,
                   researched_leads, qualified_leads, engaged_leads, crm_outcomes,
                   api_keys, active_framework,
                   raised>>

\* one iteration of CRMHandler.run: the lead as handed off and, for a lead
\* with a scheduled meeting, the outcome the learning engine records
hand_off_lead(keys, lead, created) ==
    IF IsScheduled(lead)
    THEN LET deal_result == create_crm_deal(keys, created)
             handed      == Put(lead, "crm_deal", deal_result)
         IN  [lead |-> handed, outcomes |-> <<crm_outcome(handed, deal_result)>>]
    ELSE [lead |-> lead, outcomes |-> << >>]

\* the concatenation of a list of lists
RECURSIVE Concat(_)
Concat(lists) ==
    IF lists = << >> THEN << >> ELSE Head(lists) \o Concat(Tail(lists))

\* stage "handoff": booked_leads holds the same lead objects that
\* CRMHandler.run updates; the stage then ends the loop of run_workflow
\* (current_stage = None, written "" here)
HandoffStage ==
    /\ Running("handoff")
    /\ \E created \in [1..Len(booked_leads[1]) -> BOOLEAN] :
          LET handed == [i \in 1..Len(booked_leads[1]) |->
                            hand_off_lead(api_keys, booked_leads[1][i], created[i])]
          IN  /\ booked_leads' = Some([i \in 1..Len(handed) |-> handed[i].lead])
              /\ crm_outcomes' =
                    crm_outcomes \o Concat([i \in 1..Len(handed) |-> handed[i].outcomes])
    /\ current_stage' = next_stage("handoff")
    /\ UNCHANGED <<scorer_vars, icp_definition, icp_scorer, leads, processed_leads,
                   researched_leads, qualified_leads, engaged_leads, api_keys, active_framework,
                   raised>>

NextWorkflow ==
    \/ IcpDefinitionStage
    \/ LeadDiscoveryStage
    \/ PreQualificationResearchStage
    \/ QualificationStage
    \/ EngagementStage
    \/ BookingStage
    \/ HandoffStage

SpecWorkflow == InitWorkflow /\ [][NextWorkflow]_vars

---------------------------------------------------------------------------
(* Properties of the lead_discovery stage.                                 *)

\* the lead_discovery stage has run: it returned or it raised
DiscoveryRan == leads # None

\* the leads of the run: the processed leads, or the discovered leads when
\* the stage ended before processing them
RunLeads == IF processed_leads # None THEN processed_leads[1] ELSE leads[1]

\* the lead as it was before the scoring loop attached its two fields
Unscored(lead) == [k \in (DOMAIN lead) \ {"icp_score", "lead_bucket"} |-> lead[k]]

ScorerGroups == {"company", "contact", "signals", "timing"}

\* what the processor makes of the discovered leads, the scorer's input
ScorerInput == process_lead_data(leads[1])

\* C9: every discovered lead, normalized and processed, carries the nested
\* groups company, contact, signals and timing that score_lead reads, and the
\* industry reported for it is the industry the scorer reads.
C9_LeadsInScorerFormat ==
    DiscoveryRan =>
        \A i \in 1..Len(ScorerInput) :
            /\ ScorerGroups \subseteq DOMAIN ScorerInput[i]
            /\ "industry" \in DOMAIN ScorerInput[i].raw_lead_data =>
                  Get(lead_company(ScorerInput[i]), "industry", EmptyStr)
                      = ScorerInput[i].raw_lead_data.industry

---------------------------------------------------------------------------
(* The revenue pattern with suffixes: company_size answers                 *)
(* "$<a><s>-$<b><t> revenue" whose two bounds carry their own suffix.       *)

\* " revenue"
TXT_revenue_word ==
    <<" ","r","e","v","e","n","u","e">>

\* the suffixes a bound is written with ("" for none)
RevenueSuffixes == {"", "K", "M", "B"}

\* the amounts written in a revenue answer
RevenueAmounts == RangeBounds \cup {500}

\* a bound as written: its digits and its suffix
BoundText(n, suffix) == Digits(n) \o (IF suffix = "" THEN EmptyStr ELSE <<suffix>>)

\* "$<a><s>-$<b><t> revenue"
SuffixedRevenueText(case) ==
    <<"$">> \o BoundText(case.min, case.min_suffix) \o <<"-", "$">>
            \o BoundText(case.max, case.max_suffix) \o TXT_revenue_word

RevenueCases ==
    [min : RevenueAmounts, min_suffix : RevenueSuffixes,
     max : RevenueAmounts, max_suffix : RevenueSuffixes]

\* the scorer is about to be built from an ICP definition with this answer
InitRevenue ==
    /\ arg \in RevenueCases
    /\ raw_icp_definition =
          [company_characteristics |-> [industry_vertical |-> TXT_b2b_saas,
                                        company_size      |-> SuffixedRevenueText(arg)]]
    /\ parsed_icp = None
    /\ bucket_thresholds = None
    /\ op = "new"
    /\ result = None
    /\ AgentInit
    /\ api_keys = {}

NextRevenue == Construct

SpecRevenue == InitRevenue /\ [][NextRevenue]_vars

\* the factor the spec gives a suffix
SuffixScale(suffix) ==
    IF suffix = "K" THEN 1000 ELSE IF suffix = "M" THEN 1000000 ELSE 1

\* C11: each bound of the parsed revenue range is scaled by its own suffix, K
\* by 10^3 and M by 10^6, also when the two suffixes differ
\* ("$500K-$2M revenue" gives min 500000, max 2000000), and the parsed min is
\* never larger than the parsed max when the written range is increasing.
C11_BoundsScaledBySuffix ==
    (op = "__init__" /\ {arg.min_suffix, arg.max_suffix} \subseteq {"K", "M"}) =>
        LET r    == parsed_icp.company_characteristics.revenue_range
            rmin == arg.min * SuffixScale(arg.min_suffix)
            rmax == arg.max * SuffixScale(arg.max_suffix)
        IN  /\ r = [min |-> Some(rmin), max |-> Some(rmax)]
            /\ rmin <= rmax => r.min[1] <= r.max[1]

---------------------------------------------------------------------------
(* The parser on malformed ICP definitions: groups missing, and a          *)
(* criterion whose value is no string.                                     *)

IcpGroups == {"company_characteristics", "buyer_persona", "engagement_signals"}

\* ICP_FULL without the groups in missing
WithoutGroups(missing) == [g \in IcpGroups \ missing |-> ICP_FULL[g]]

\* definition with criterion c, when its group is there, set to value
WithCriterion(definition, c, value) ==
    IF c[1] \in DOMAIN definition
    THEN Put(definition, c[1], Put(definition[c[1]], c[2], value))
    ELSE definition

\* which groups are missing, and which criterion (0: none) has which value
MalformedCases ==
    [missing : SUBSET IcpGroups, criterion : 0..Len(ParsedCriteria), value : NonStrings]

MalformedDefinition(case) ==
    IF case.criterion = 0 THEN WithoutGroups(case.missing)
    ELSE WithCriterion(WithoutGroups(case.missing), ParsedCriteria[case.criterion], case.value)

\* the scorer is about to be built from a malformed ICP definition
InitMalformed ==
    /\ arg \in MalformedCases
    /\ raw_icp_definition = MalformedDefinition(arg)
    /\ parsed_icp = None
    /\ bucket_thresholds = None
    /\ op = "new"
    /\ result = None
    /\ AgentInit
    /\ api_keys = {}

NextMalformed == Construct

SpecMalformed == InitMalformed /\ [][NextMalformed]_vars

\* the parsed entry of criterion c is empty: no tokens, or a range of nulls
ParsedEmpty(parsed, c) ==
    IF c[2] = "company_size"
    THEN /\ parsed[c[1]].employee_count_range = [min |-> None, max |-> None]
         /\ parsed[c[1]].revenue_range = [min |-> None, max |-> None]
    ELSE parsed[c[1]][c[2]] = << >>

\* criterion c has no string value in the definition: its group is missing
\* or its value is no string
Malformed(definition, c) ==
    \/ c[1] \notin DOMAIN definition
    \/ CriterionValue(definition, c) \in NonStrings

\* C12: constructing an ICPScorer from an ICP definition with groups missing
\* or with a criterion value that is no string (null, number, list) does not
\* raise: parsing completes and the affected criteria become empty token
\* lists or null ranges.
C12_ParserFailsSoftly ==
    op = "__init__" =>
        /\ result.kind = "return"
        /\ \A i \in 1..Len(ParsedCriteria) :
              Malformed(raw_icp_definition, ParsedCriteria[i]) =>
                  ParsedEmpty(parsed_icp, ParsedCriteria[i])

---------------------------------------------------------------------------
(* score_lead on sparse lead records: groups missing or empty, fields      *)
(* missing or empty.                                                       *)

LeadGroupNames == {"company", "contact", "signals", "timing"}

\* d restricted to the keys in keys
Restrict(d, keys) == [k \in keys |-> d[k]]

\* d with the text or list under key emptied ("" or [])
Emptied(d, key) == [k \in DOMAIN d |-> IF k = key THEN << >> ELSE d[k]]

\* the fields of a group that hold a text or a list
EmptiableFields(g) ==
    IF g = "company" THEN {"industry", "geography", "tech_stack", "growth_indicators"}
    ELSE IF g = "contact" THEN DOMAIN CONTACT_FULL
    ELSE {}

\* group g of the full lead with any of its fields missing, or one emptied
GroupVariants(g) ==
         {Restrict(LEAD_FULL[g], keys) : keys \in SUBSET DOMAIN LEAD_FULL[g]}
    \cup {Emptied(LEAD_FULL[g], k) : k \in EmptiableFields(g)}

\* the lead whose group g is v and whose other groups are missing, empty or full
SparseLead(g, v, others) ==
    [h \in {g} \cup {x \in DOMAIN others : others[x] # "missing"} |->
        IF h = g THEN v
        ELSE IF others[h] = "empty" THEN EmptyDict
        ELSE LEAD_FULL[h]]

SparseLeads ==
    UNION { {SparseLead(g, v, others) :
                v \in GroupVariants(g),
                others \in [LeadGroupNames \ {g} -> {"missing", "empty", "full"}]} :
            g \in LeadGroupNames }

\* a scorer for the full ICP; the caller holds a sparse lead record
InitSparse ==
    /\ ScorerInit(ICP_FULL)
    /\ op = "__init__"
    /\ arg \in SparseLeads
    /\ result = None
    /\ AgentInit
    /\ api_keys = {}

NextSparse == ScoreLead

SpecSparse == InitSparse /\ [][NextSparse]_vars

\* the criteria of the four rubrics: the lead field a criterion reads, the
\* kind of its value, its points and the weight of its rubric (in tenths)
RubricCriteria ==
    << [group |-> "company", field |-> "industry",          kind |-> "text",   points |-> 25, weight |-> 4],
       [group |-> "company", field |-> "employee_count",    kind |-> "number", points |-> 10, weight |-> 4],
       [group |-> "company", field |-> "revenue_estimate",  kind |-> "number", points |-> 10, weight |-> 4],
       [group |-> "company", field |-> "geography",         kind |-> "text",   points |-> 15, weight |-> 4],
       [group |-> "company", field |-> "tech_stack",        kind |-> "list",   points |-> 20, weight |-> 4],
       [group |-> "company", field |-> "growth_indicators", kind |-> "list",   points |-> 20, weight |-> 4],
       [group |-> "contact", field |-> "title",             kind |-> "text",   points |-> 30, weight |-> 3],
       [group |-> "contact", field |-> "seniority",         kind |-> "text",   points |-> 25, weight |-> 3],
       [group |-> "contact", field |-> "department",        kind |-> "text",   points |-> 25, weight |-> 3],
       [group |-> "contact", field |-> "authority_level",   kind |-> "text",   points |-> 20, weight |-> 3],
       [group |-> "signals", field |-> "recent_funding",        kind |-> "flag", points |-> 30, weight |-> 2],
       [group |-> "signals", field |-> "hiring_relevant_roles", kind |-> "flag", points |-> 25, weight |-> 2],
       [group |-> "signals", field |-> "tech_stack_changes",    kind |-> "flag", points |-> 20, weight |-> 2],
       [group |-> "signals", field |-> "competitor_mentions",   kind |-> "flag", points |-> 15, weight |-> 2],
       [group |-> "signals", field |-> "product_launches",      kind |-> "flag", points |-> 10, weight |-> 2],
       [group |-> "timing", field |-> "fiscal_calendar_alignment", kind |-> "flag", points |-> 30, weight |-> 1],
       [group |-> "timing", field |-> "recent_trigger_events",     kind |-> "flag", points |-> 40, weight |-> 1],
       [group |-> "timing", field |-> "seasonal_factors",          kind |-> "flag", points |-> 30, weight |-> 1] >>

\* criterion i of RubricCriteria is satisfied by the lead, as the code decides it
CriterionHolds(i, parsed, lead_data) ==
    CASE i = 1  -> IndustryMatch(parsed, lead_data)
      [] i = 2  -> EmployeeMatch(parsed, lead_data)
      [] i = 3  -> RevenueMatch(parsed, lead_data)
      [] i = 4  -> GeographyMatch(parsed, lead_data)
      [] i = 5  -> TechStackMatch(parsed, lead_data)
      [] i = 6  -> GrowthMatch(parsed, lead_data)
      [] i = 7  -> TitleMatch(parsed, lead_data)
      [] i = 8  -> SeniorityMatch(parsed, lead_data)
      [] i = 9  -> DepartmentMatch(parsed, lead_data)
      [] i = 10 -> AuthorityMatch(parsed, lead_data)
      [] i \in 11..15 ->
            SignalMatch(parsed, lead_data, IntentRows[i - 10].flag, IntentRows[i - 10].name)
      [] i \in 16..18 -> TimingFlag(lead_data, RubricCriteria[i].field)

\* the data of criterion i is absent from the lead: its group or its field is
\* missing, or its text or list is empty
DataAbsent(i, lead_data) ==
    LET c == RubricCriteria[i]
    IN  \/ c.group \notin DOMAIN lead_data
        \/ c.field \notin DOMAIN lead_data[c.group]
        \/ c.kind \in {"text", "list"} /\ lead_data[c.group][c.field] = << >>

\* ten times the weighted points of the criteria 1..n that hold and whose data
\* is present
RECURSIVE PresentPoints(_, _, _)
PresentPoints(n, parsed, lead_data) ==
    IF n = 0 THEN 0
    ELSE PresentPoints(n - 1, parsed, lead_data)
         + (IF CriterionHolds(n, parsed, lead_data) /\ ~DataAbsent(n, lead_data)
            THEN RubricCriteria[n].weight * RubricCriteria[n].points ELSE 0)

\* C13: for a lead record in which any of the groups company, contact, signals,
\* timing, or any field inside them, is missing or empty, score_lead returns a
\* number without raising, and each criterion whose data is absent contributes
\* 0 points: the total is made of the criteria whose data is present.
C13_AbsentDataScoresZero ==
    Scored =>
        /\ result.kind = "return"
        /\ result.value \in 0..10000
        /\ \A i \in 1..Len(RubricCriteria) :
              DataAbsent(i, arg) => ~CriterionHolds(i, parsed_icp, arg)
        /\ result.value = 10 * PresentPoints(Len(RubricCriteria), parsed_icp, arg)

\* C13 witness: a lead without a company group, with an empty contact group
\* and with some of its signal flags missing has been scored above 0.
C13_Witness ==
    /\ Scored
    /\ "company" \notin DOMAIN arg
    /\ "contact" \in DOMAIN arg /\ arg.contact = EmptyDict
    /\ "signals" \in DOMAIN arg /\ DOMAIN arg.signals = {"recent_funding", "product_launches"}
    /\ result.value > 0

---------------------------------------------------------------------------
(* The two range criteria: a scorer built from a company_size answer, and  *)
(* leads that give an employee count and a revenue estimate.               *)

\* "$<a>M-$ revenue": the second number is left out
OpenRevenueText(a) == <<"$">> \o Digits(a) \o <<"M", "-", "$">> \o TXT_revenue_word

\* the company_size answer of a form: both ranges, the revenue range without
\* its second number, or no range at all
RangeSizeText(form, lo, hi) ==
    IF form = "both" THEN EmployeesText(lo, hi) \o <<",", " ">> \o RevenueText(lo, hi)
    ELSE IF form = "open" THEN EmployeesText(lo, hi) \o <<",", " ">> \o OpenRevenueText(lo)
    ELSE TXT_size_growth_stage

RangeIcp(form, lo, hi) ==
    [company_characteristics |-> [company_size |-> RangeSizeText(form, lo, hi)]]

\* leads with an employee count of n and a revenue estimate of n million,
\* with both, with one of them or with neither
RangeLeads ==
    UNION { { CompanyOnly([employee_count |-> n, revenue_estimate |-> n * 1000000]),
              CompanyOnly([employee_count |-> n]),
              CompanyOnly([revenue_estimate |-> n * 1000000]) } :
            n \in 0..(MaxBoundValue + 1) }
    \cup {CompanyOnly(EmptyDict)}

InitRange ==
    /\ \E form \in {"both", "open", "none"}, lo \in RangeBounds, hi \in RangeBounds :
          /\ form = "none" => (lo = 0 /\ hi = 0)
          /\ ScorerInit(RangeIcp(form, lo, hi))
    /\ op = "__init__"
    /\ arg \in RangeLeads
    /\ result = None
    /\ AgentInit
    /\ api_keys = {}

NextRange == ScoreLead

SpecRange == InitRange /\ [][NextRange]_vars

\* the lead gives a number under key that lies in the range, bounds included
WithinRange(lead_data, key, range) ==
    /\ key \in DOMAIN lead_company(lead_data)
    /\ range.min # None
    /\ range.max # None
    /\ range.min[1] <= lead_company(lead_data)[key]
    /\ lead_company(lead_data)[key] <= range.max[1]

\* C14: the employee-count criterion awards +10 exactly when the parsed
\* employee range has both bounds and min <= employee_count <= max, bounds
\* included, and the revenue criterion +10 exactly when its range has both
\* bounds and min <= revenue_estimate <= max; with a null bound the check is
\* skipped and awards 0.
C14_RangeCriteriaInclusive ==
    Scored =>
        LET cc  == parsed_icp.company_characteristics
            emp == WithinRange(arg, "employee_count", cc.employee_count_range)
            rev == WithinRange(arg, "revenue_estimate", cc.revenue_range)
        IN  /\ result.kind = "return"
            /\ EmployeeMatch(parsed_icp, arg) <=> emp
            /\ RevenueMatch(parsed_icp, arg) <=> rev
            /\ CompanyScore = Points(emp, 10) + Points(rev, 10)

---------------------------------------------------------------------------
(* ICP quality heuristics: validate_icp, _estimate_market_size and         *)
(* check_icp_quality.                                                      *)

\* the keys of parsed_icp that hold a range dictionary
RangeKeys == {"employee_count_range", "revenue_range"}

\* bool(value) of an entry of parsed_icp: a list is truthy when it has an
\* element, a range dictionary always (it has the keys min and max)
Truthy(key, value) == IF key \in RangeKeys THEN TRUE ELSE value # << >>

\* any(group.values())
AnyValue(group) == \E key \in DOMAIN group : Truthy(key, group[key])

Invalid(message) == [is_valid |-> FALSE, message |-> message]

\* validate_icp without its last check, of decision_maker_profile
Mut_validate_icp(parsed) ==
    IF ~AnyValue(parsed.company_characteristics)
    THEN Invalid("Company characteristics are not sufficiently defined in the ICP.")
    ELSE IF ~AnyValue(parsed.buyer_persona)
    THEN Invalid("Buyer persona is not sufficiently defined in the ICP.")
    ELSE IF ~AnyValue(parsed.engagement_signals)
    THEN Invalid("Engagement signals are not sufficiently defined in the ICP.")
    ELSE IF Get(parsed.company_characteristics, "industry_vertical", << >>) = << >>
    THEN Invalid("ICP is missing target industries.")
    ELSE [is_valid |-> TRUE, message |-> "ICP looks good!"]

\* ICPScorer.validate_icp
validate_icp(parsed) ==
    IF ~AnyValue(parsed.company_characteristics)
    THEN Invalid("Company characteristics are not sufficiently defined in the ICP.")
    ELSE IF ~AnyValue(parsed.buyer_persona)
    THEN Invalid("Buyer persona is not sufficiently defined in the ICP.")
    ELSE IF ~AnyValue(parsed.engagement_signals)
    THEN Invalid("Engagement signals are not sufficiently defined in the ICP.")
    ELSE IF Get(parsed.company_characteristics, "industry_vertical", << >>) = << >>
    THEN Invalid("ICP is missing target industries.")
    ELSE IF Get(parsed.buyer_persona, "decision_maker_profile", << >>) = << >>
    THEN Invalid("ICP is missing target decision maker profiles.")
    ELSE [is_valid |-> TRUE, message |-> "ICP looks good!"]

\* one step of the loop of _estimate_market_size: whether an entry counts.  A
\* list counts when it has an element; a range dictionary with a bound that is
\* not None counts in the second branch, and one with two None bounds is still
\* a non-empty dictionary and counts in the third (elif value)
CountsAsDefined(key, value) ==
    IF key \in RangeKeys
    THEN (value.min # None \/ value.max # None) \/ Truthy(key, value)
    ELSE value # << >>

\* defined_criteria_count
defined_criteria_count(parsed) ==
    Cardinality({<<category, key>> \in
                    UNION {{<<c, k>> : k \in DOMAIN parsed[c]} : c \in DOMAIN parsed} :
                    CountsAsDefined(key, parsed[category][key])})

\* "10,000,000+"
SIZE_very_broad ==
    <<"1","0",",","0","0","0",",","0","0","0","+">>

\* "1,000,000 - 10,000,000"
SIZE_broad ==
    <<"1",",","0","0","0",",","0","0","0"," ","-"," ","1","0",",","0","0","0",",","0","0","0">>

\* "100,000 - 1,000,000"
SIZE_medium ==
    <<"1","0","0",",","0","0","0"," ","-"," ","1",",","0","0","0",",","0","0","0">>

\* "10,000 - 100,000"
SIZE_niche ==
    <<"1","0",",","0","0","0"," ","-"," ","1","0","0",",","0","0","0">>

\* "1,000 - 10,000"
SIZE_very_niche ==
    <<"1",",","0","0","0"," ","-"," ","1","0",",","0","0","0">>

\* _estimate_market_size with the first breakpoint at 6 instead of 3
Mut_estimate_market_size(parsed) ==
    LET n == defined_criteria_count(parsed)
    IN  IF n < 6 THEN SIZE_very_broad
        ELSE IF n < 9 THEN SIZE_medium
        ELSE IF n < 12 THEN SIZE_niche
        ELSE SIZE_very_niche

\* ICPScorer._estimate_market_size
estimate_market_size(parsed) ==
    LET n == defined_criteria_count(parsed)
    IN  IF n < 3 THEN SIZE_very_broad
        ELSE IF n < 6 THEN SIZE_broad
        ELSE IF n < 9 THEN SIZE_medium
        ELSE IF n < 12 THEN SIZE_niche
        ELSE SIZE_very_niche

\* ICPScorer.check_icp_quality
check_icp_quality(parsed) ==
    LET market_size == estimate_market_size(parsed)
    IN  IF Contains(market_size, SIZE_very_broad)
        THEN [market_size_estimate |-> market_size,
              breadth_narrowness   |-> "Too Broad",
              suggestions          |-> <<"Consider adding more specific criteria">>]
        ELSE IF Contains(market_size, SIZE_very_niche)
        THEN [market_size_estimate |-> market_size,
              breadth_narrowness   |-> "Very Niche",
              suggestions          |-> <<"Your ICP is very niche">>]
        ELSE [market_size_estimate |-> market_size,
              breadth_narrowness   |-> "Well-defined",
              suggestions          |-> <<"Your ICP appears well-defined">>]

\* the criteria of an ICP definition other than company_size
TextCriteria ==
    {ParsedCriteria[i] : i \in 1..Len(ParsedCriteria)}
        \ {<<"company_characteristics", "company_size">>}

\* company_size answers: none (""), an employee range, a revenue range, a
\* revenue range without its second number, both ranges
QualitySizeTexts ==
    {EmptyStr, EmployeesText(10, 50), RevenueText(1, 10), OpenRevenueText(5), TXT_size_example}

\* ICP_FULL reduced to the criteria in kept, with the company_size answer size
\* (left out when it is "")
ReducedIcp(kept, size) ==
    [g \in IcpGroups |->
        [k \in {c[2] : c \in {x \in kept : x[1] = g}}
               \cup (IF g = "company_characteristics" /\ size # EmptyStr
                     THEN {"company_size"} ELSE {}) |->
            IF k = "company_size" THEN size ELSE ICP_FULL[g][k]]]

\* a scorer has been built from a reduced ICP definition
InitQuality ==
    /\ \E kept \in SUBSET TextCriteria, size \in QualitySizeTexts :
          ScorerInit(ReducedIcp(kept, size))
    /\ op = "__init__"
    /\ arg = None
    /\ result = None
    /\ AgentInit
    /\ api_keys = {}

\* a call of validate_icp()
ValidateIcp ==
    /\ op' = "validate_icp"
    /\ result' = Returned(validate_icp(parsed_icp))
    /\ UNCHANGED <<raw_icp_definition, parsed_icp, bucket_thresholds, arg, workflow_vars>>

\* a call of check_icp_quality()
CheckIcpQuality ==
    /\ op' = "check_icp_quality"
    /\ result' = Returned(check_icp_quality(parsed_icp))
    /\ UNCHANGED <<raw_icp_definition, parsed_icp, bucket_thresholds, arg, workflow_vars>>

NextQuality ==
    \/ ValidateIcp
    \/ CheckIcpQuality

SpecQuality == InitQuality /\ [][NextQuality]_vars

\* an entry of parsed_icp is a defined criterion: a token list with a token,
\* or a range with a bound that is not null
DefinedCriterion(key, value) ==
    IF key \in RangeKeys THEN value.min # None \/ value.max # None
    ELSE value # << >>

\* the defined criteria of a group of parsed_icp
DefinedIn(group) == {key \in DOMAIN group : DefinedCriterion(key, group[key])}

\* C15: validate_icp does not raise and returns is_valid = false exactly when
\* one of the three groups has no defined criterion, or the industry_vertical
\* token list is empty, or the decision_maker_profile token list is empty, and
\* is_valid = true otherwise; an ICP definition with three empty groups is
\* invalid.
C15_ValidateIcp ==
    op = "validate_icp" =>
        /\ result.kind = "return"
        /\ result.value.is_valid = FALSE <=>
              \/ \E g \in IcpGroups : DefinedIn(parsed_icp[g]) = {}
              \/ parsed_icp.company_characteristics.industry_vertical = << >>
              \/ parsed_icp.buyer_persona.decision_maker_profile = << >>
        /\ raw_icp_definition = ICP_EMPTY => result.value.is_valid = FALSE

\* C15 witness: validate_icp has found the ICP definition with three empty
\* groups invalid.
C15_Witness ==
    /\ op = "validate_icp"
    /\ raw_icp_definition = ICP_EMPTY
    /\ result.value.is_valid = FALSE

\* C15 witness of the other answer: a definition with an industry, decision
\* makers and a signal was found valid.
ValidIcpReached ==
    /\ op = "validate_icp"
    /\ result.value.is_valid = TRUE

\* the number of defined criteria of parsed_icp
DefinedCount(parsed) ==
      Cardinality(DefinedIn(parsed.company_characteristics))
    + Cardinality(DefinedIn(parsed.buyer_persona))
    + Cardinality(DefinedIn(parsed.engagement_signals))

\* C16: with n the number of defined criteria of the parsed ICP (token lists
\* with a token, ranges with a bound that is not null), check_icp_quality gives
\* the market size "10,000,000+" for n < 3, "1,000,000 - 10,000,000" for
\* 3 <= n < 6, "100,000 - 1,000,000" for 6 <= n < 9, "10,000 - 100,000" for
\* 9 <= n < 12 and "1,000 - 10,000" for n >= 12, the label "Too Broad" iff
\* n < 3, "Very Niche" iff n >= 12 and "Well-defined" otherwise, and exactly
\* one suggestion.
C16_QualityByDefinedCount ==
    op = "check_icp_quality" =>
        LET n == DefinedCount(parsed_icp)
            q == result.value
        IN  /\ result.kind = "return"
            /\ n \in 0..12
            /\ q.market_size_estimate =
                  (IF n < 3 THEN SIZE_very_broad
                   ELSE IF n < 6 THEN SIZE_broad
                   ELSE IF n < 9 THEN SIZE_medium
                   ELSE IF n < 12 THEN SIZE_niche
                   ELSE SIZE_very_niche)
            /\ q.breadth_narrowness = "Too Broad" <=> n < 3
            /\ q.breadth_narrowness = "Very Niche" <=> n >= 12
            /\ q.breadth_narrowness \in {"Too Broad", "Very Niche", "Well-defined"}
            /\ Len(q.suggestions) = 1

---------------------------------------------------------------------------
(* Several callers on one scorer.  Each call of score_lead runs in a frame *)
(* of its own: the locals company_fit_score .. timing_score of lines 56-65 *)
(* and the accumulators of the four _calculate_* methods belong to the     *)
(* call, and self.parsed_icp is the only object the calls share.  A step   *)
(* of a caller is one statement of score_lead; the callers' steps          *)
(* interleave in any order, and a caller whose call has returned may call  *)
(* again with the same lead.  Here arg holds the lead of each caller and   *)
(* result the frame of each caller's call.                                 *)

\* the callers
Threads == {1, 2}

\* the frame of a call that has not started: the statement the call is at, the
\* four locals of score_lead, and the value the caller last received
NewFrame ==
    [pc |-> "idle", company_fit_score |-> None, persona_fit_score |-> None,
     intent_signal_score |-> None, timing_score |-> None, returned |-> None]

\* StoreLocal with one cell per name shared by every call
Mut_StoreLocal(frames, t, name, value) ==
    [u \in DOMAIN frames |-> [frames[u] EXCEPT ![name] = value]]

\* an assignment to a local of caller t's call
StoreLocal(frames, t, name, value) ==
    [frames EXCEPT ![t][name] = value]

\* caller t's call moves to the next statement
Goto(frames, t, statement) ==
    [frames EXCEPT ![t].pc = statement]

\* the leads the callers hold
CallerLeads ==
    {EmptyDict, LEAD_EXAMPLE, LEAD_FULL, LEAD_NO_MATCH,
     Lead(COMPANY_PARTIAL, CONTACT_PARTIAL, SIGNALS_NONE, TIMING_ALL),
     Lead(COMPANY_FULL, CONTACT_NO_MATCH, SIGNALS_ALL, TIMING_NONE)}
    \cup {[signals |-> FlagGroup(SignalFlags, set)] :
             set \in SUBSET {"recent_funding", "competitor_mentions", "product_launches"}}
    \cup {[timing |-> FlagGroup(TimingFlags, set)] :
             set \in SUBSET {"fiscal_calendar_alignment", "seasonal_factors"}}

\* One scorer has been built; each caller holds a lead record.
InitThreads ==
    /\ \E icp \in {ICP_FULL, ICP_EXAMPLE, IcpWithSignals(SIG_product_launches)} :
          ScorerInit(icp)
    /\ op = "__init__"
    /\ arg \in [Threads -> CallerLeads]
    /\ result = [t \in Threads |-> NewFrame]
    /\ AgentInit
    /\ api_keys = {}

\* the frame of the scorer's state that a step of score_lead leaves alone
ScorerUnchanged ==
    UNCHANGED <<raw_icp_definition, parsed_icp, bucket_thresholds, arg, workflow_vars>>

\* caller t calls score_lead(lead_data): a new frame
CallScoreLead(t) ==
    /\ result[t].pc \in {"idle", "done"}
    /\ op' = "score_lead"
    /\ result' = [result EXCEPT ![t] = [NewFrame EXCEPT !.pc = "l56",
                                                       !.returned = result[t].returned]]
    /\ ScorerUnchanged

\* line 56
CompanyFitStep(t) ==
    /\ result[t].pc = "l56"
    /\ result' = Goto(StoreLocal(result, t, "company_fit_score",
                                 Some(calculate_company_fit(parsed_icp, arg[t]))), t, "l57")
    /\ UNCHANGED op /\ ScorerUnchanged

\* line 57
PersonaFitStep(t) ==
    /\ result[t].pc = "l57"
    /\ result' = Goto(StoreLocal(result, t, "persona_fit_score",
                                 Some(calculate_persona_fit(parsed_icp, arg[t]))), t, "l58")
    /\ UNCHANGED op /\ ScorerUnchanged

\* line 58
IntentSignalStep(t) ==
    /\ result[t].pc = "l58"
    /\ result' = Goto(StoreLocal(result, t, "intent_signal_score",
                                 Some(calculate_intent_signal_score(parsed_icp, arg[t]))),
                      t, "l59")
    /\ UNCHANGED op /\ ScorerUnchanged

\* line 59
TimingStep(t) ==
    /\ result[t].pc = "l59"
    /\ result' = Goto(StoreLocal(result, t, "timing_score",
                                 Some(calculate_timing_score(arg[t]))), t, "l62")
    /\ UNCHANGED op /\ ScorerUnchanged

\* lines 62-65
NormalizeStep(t) ==
    /\ result[t].pc = "l62"
    /\ LET f  == result[t]
           r1 == StoreLocal(result, t, "company_fit_score", Some(Min100(f.company_fit_score[1])))
           r2 == StoreLocal(r1, t, "persona_fit_score", Some(Min100(r1[t].persona_fit_score[1])))
           r3 == StoreLocal(r2, t, "intent_signal_score",
                            Some(Min100(r2[t].intent_signal_score[1])))
           r4 == StoreLocal(r3, t, "timing_score", Some(Min100(r3[t].timing_score[1])))
       IN  result' = Goto(r4, t, "l67")
    /\ UNCHANGED op /\ ScorerUnchanged

\* lines 67-73: the caller receives the rounded total
ReturnStep(t) ==
    /\ result[t].pc = "l67"
    /\ LET f == result[t]
       IN  result' = [result EXCEPT
                        ![t].pc = "done",
                        ![t].returned =
                            Some(Round2(WeightedSum(f.company_fit_score[1],
                                                    f.persona_fit_score[1],
                                                    f.intent_signal_score[1],
                                                    f.timing_score[1])))]
    /\ UNCHANGED op /\ ScorerUnchanged

NextThreads ==
    \E t \in Threads :
        \/ CallScoreLead(t)
        \/ CompanyFitStep(t)
        \/ PersonaFitStep(t)
        \/ IntentSignalStep(t)
        \/ TimingStep(t)
        \/ NormalizeStep(t)
        \/ ReturnStep(t)

SpecThreads == InitThreads /\ [][NextThreads]_vars

\* criterion i of the rubric is satisfied by the lead: a company, persona or
\* timing criterion as the rubric's test decides it, an intent criterion when
\* the lead's flag is set and the ICP's intent_signals answer lists the name
Satisfies(i, lead_data) ==
    IF i \in 11..15
    THEN /\ Flag(lead_signals(lead_data), IntentRows[i - 10].flag)
         /\ ListsSignal(IntentSignalsText, IntentRows[i - 10].name)
    ELSE CriterionHolds(i, parsed_icp, lead_data)

\* ten times the weighted points of the criteria 1..n that the second lead
\* satisfies and the first does not
RECURSIVE GainedPoints(_, _, _)
GainedPoints(n, first, second) ==
    IF n = 0 THEN 0
    ELSE GainedPoints(n - 1, first, second)
         + (IF Satisfies(n, second) /\ ~Satisfies(n, first)
            THEN RubricCriteria[n].weight * RubricCriteria[n].points ELSE 0)

\* both callers have received a score
BothReturned == \A t \in Threads : result[t].returned # None

\* every criterion the first caller's lead satisfies, the second's satisfies
CriteriaIncluded ==
    \A i \in 1..Len(RubricCriteria) : Satisfies(i, arg[1]) => Satisfies(i, arg[2])

\* C17: for a fixed ICP and two leads L1, L2 such that every rubric criterion
\* satisfied by L1 is also satisfied by L2, score_lead(L1) <= score_lead(L2),
\* and the difference is the weighted sum of the points of the criteria
\* satisfied only by L2.
C17_MonotonicInCriteria ==
    (BothReturned /\ CriteriaIncluded) =>
        /\ result[1].returned[1] <= result[2].returned[1]
        /\ result[2].returned[1] - result[1].returned[1]
              = 10 * GainedPoints(Len(RubricCriteria), arg[1], arg[2])

\* the order alone: the lead that satisfies more never scores less
ScoreOrderPreserved ==
    (BothReturned /\ CriteriaIncluded) =>
        result[1].returned[1] <= result[2].returned[1]

\* C19: for any number of score_lead calls on the same scorer, repeated on the
\* same lead or interleaved step by step across different leads, every call
\* returns the value it would return when run alone on that lead.
C19_ConcurrentCallsAgree ==
    \A t \in Threads :
        result[t].returned # None =>
            result[t].returned = Some(score_lead(parsed_icp, arg[t]))

\* C19 witness: one caller's call has returned while the other caller, who
\* holds a lead with another score, is in the middle of a second call.
C19_Witness ==
    /\ result[1].pc = "done"
    /\ result[2].pc = "l59" /\ result[2].returned # None
    /\ arg[1] # arg[2]
    /\ result[1].returned # result[2].returned

---------------------------------------------------------------------------
(* What the scorer does to its inputs.  The caller holds an ICP definition *)
(* and a lead record, builds a scorer from the definition and calls the    *)
(* three read methods in any order.  raw_icp_definition is the caller's    *)
(* dictionary, which self.raw_icp_definition refers to after line 6.       *)

\* the definitions the caller builds a scorer from: complete, partial and
\* empty ones, and one the parser raises on
FrameDefinitions ==
    {ICP_FULL, ICP_EXAMPLE, ICP_EMPTY, EmptyDict,
     WithoutGroups({"buyer_persona"}),
     WithoutGroups({"company_characteristics", "engagement_signals"}),
     WithCriterion(ICP_FULL, ParsedCriteria[1], PY_NoneType)}

InitFrame ==
    /\ raw_icp_definition \in FrameDefinitions
    /\ parsed_icp = None
    /\ bucket_thresholds = None
    /\ op = "new"
    /\ arg \in Leads
    /\ result = None
    /\ AgentInit
    /\ api_keys = {}

\* the scorer exists: the constructor has returned
Built == parsed_icp # None

NextFrame ==
    \/ Construct
    \/ Built /\ ScoreLead
    \/ Built /\ ValidateIcp
    \/ Built /\ CheckIcpQuality

SpecFrame == InitFrame /\ [][NextFrame]_vars

\* C18: constructing ICPScorer leaves the ICP definition unchanged and builds
\* a parsed structure where there was none, and every call of score_lead,
\* validate_icp and check_icp_quality leaves the lead record, the raw ICP
\* definition and parsed_icp unchanged.
C18_InputsUnchanged ==
    [][ /\ raw_icp_definition' = raw_icp_definition
        /\ arg' = arg
        /\ op' = "__init__" => (parsed_icp = None /\ parsed_icp' # raw_icp_definition')
        /\ op' \in {"score_lead", "validate_icp", "check_icp_quality"} =>
              parsed_icp' = parsed_icp ]_vars

\* C18 witness: on a scorer built from a definition without groups, a lead
\* with data in its four groups has been scored.
C18_Witness ==
    /\ op = "score_lead"
    /\ raw_icp_definition = EmptyDict
    /\ parsed_icp = ParseIcpDefinition(EmptyDict)
    /\ arg = LEAD_FULL

---------------------------------------------------------------------------
(* The order of the stages of run_workflow.                                *)

\* the fixed sequence of the stages; "" stands for None, the end of the loop
StageSequence ==
    <<"icp_definition", "lead_discovery", "pre_qualification_research",
      "qualification", "engagement", "booking", "handoff", "">>

\* the place of a stage in the sequence
StageIndex(stage) ==
    CHOOSE i \in 1..Len(StageSequence) : StageSequence[i] = stage

\* the result lists, in the order of the stages that set them: list k is set
\* by stage k + 1 and read by stage k + 2
ResultLists ==
    <<processed_leads, researched_leads, qualified_leads, engaged_leads, booked_leads>>

\* at current_stage, every list a stage up to it reads has been set, and no
\* list has been set by a stage that is not yet entered
ListsSetInOrder ==
    \A k \in 1..Len(ResultLists) :
        /\ StageIndex(current_stage) >= k + 2 => ResultLists[k] # None
        /\ ResultLists[k] # None => StageIndex(current_stage) >= k + 1

\* C20: during run_workflow, current_stage only moves along the sequence
\* icp_definition, lead_discovery, pre_qualification_research, qualification,
\* engagement, booking, handoff, None: a step of the loop either enters the
\* next stage of the sequence or ends the run with an exception in the stage
\* it is in, and each stage's result list is set before the next stage reads it.
C20_StagesInOrder ==
    [][ /\ current_stage \in {StageSequence[i] : i \in 1..7}
        /\ \/ current_stage' = StageSequence[StageIndex(current_stage) + 1] /\ raised' = None
           \/ current_stage' = current_stage /\ raised = None /\ raised' # None
        /\ ListsSetInOrder' ]_vars

\* C20 witness: run_workflow has gone through the seven stages and ended.
C20_Witness ==
    /\ current_stage = ""
    /\ raised = None
    /\ \A k \in 1..Len(ResultLists) : ResultLists[k] # None

---------------------------------------------------------------------------
(* run_workflow to the end.  The loop of lines 48-84 runs one stage after  *)
(* the other in a single thread, so a stage that can run does run; an      *)
(* exception leaves the loop and ends the run.  The first stage waits for  *)
(* the wizard's user and is not required to end.                           *)

SpecWorkflowFair ==
    /\ SpecWorkflow
    /\ WF_vars(LeadDiscoveryStage)
    /\ WF_vars(PreQualificationResearchStage)
    /\ WF_vars(QualificationStage)
    /\ WF_vars(EngagementStage)
    /\ WF_vars(BookingStage)
    /\ WF_vars(HandoffStage)

\* C21: once the ICP wizard has returned a definition, for every list of leads
\* found by discovery (empty or not) the run eventually executes the handoff
\* stage and ends with current_stage = None, without aborting in an earlier
\* stage.
C21_RunsToCompletion ==
    (icp_definition # None) ~> (current_stage = "" /\ raised = None)

---------------------------------------------------------------------------
(* The qualification manager on its own: a QualificationManager built with *)
(* some framework name, calls of set_framework with any name and calls of  *)
(* run on the caller's list of leads.  arg holds the arguments the caller  *)
(* passed last: the framework name and the list of lead objects, which run *)
(* updates in place.                                                       *)

\* framework names a caller may pass: the supported ones and others
FrameworkNames == {"BANT", "MEDDIC", "CHAMP", "Custom", "SPIN", "bant", ""}

\* leads with the fields one framework reads, in every combination
BantLeads ==
    {[budget_indicated |-> b, contact_authority |-> a, identified_need |-> n,
      purchase_timeline |-> t] :
        b \in BOOLEAN, n \in BOOLEAN,
        a \in {"Decision Maker", "Influencer", "User"},
        t \in {"0-3 months", "3-6 months", "12+ months"}}

MeddicLeads ==
    {[business_metrics |-> m, contact_role |-> r, decision_criteria |-> c,
      decision_process |-> p, identified_pain |-> i, internal_champion |-> h] :
        m \in BOOLEAN, c \in BOOLEAN, p \in BOOLEAN, i \in BOOLEAN, h \in BOOLEAN,
        r \in {"Economic Buyer", "User"}}

ChampLeads ==
    {[identified_challenges |-> c, contact_authority |-> a, budget_approved |-> b,
      initiative_priority |-> p] :
        c \in BOOLEAN, b \in BOOLEAN,
        a \in {"Decision Maker", "Influencer"}, p \in {"High", "Low"}}

\* a lead that qualifies and one that does not, for each framework
ListedLeads ==
    {[budget_indicated |-> TRUE, contact_authority |-> "Influencer",
      identified_need |-> TRUE, purchase_timeline |-> "12+ months"],
     [budget_indicated |-> TRUE, contact_authority |-> "User",
      identified_need |-> FALSE, purchase_timeline |-> "0-3 months"],
     [business_metrics |-> TRUE, contact_role |-> "User", decision_criteria |-> TRUE,
      decision_process |-> TRUE, identified_pain |-> TRUE, internal_champion |-> TRUE],
     [business_metrics |-> TRUE, contact_role |-> "Economic Buyer", decision_criteria |-> FALSE,
      decision_process |-> FALSE, identified_pain |-> TRUE, internal_champion |-> TRUE],
     [identified_challenges |-> TRUE, contact_authority |-> "Decision Maker",
      budget_approved |-> FALSE, initiative_priority |-> "High"]}

\* the lists the caller passes to run
QualificationInputs ==
    {<<lead>> : lead \in BantLeads \cup MeddicLeads \cup ChampLeads \cup {EmptyDict}}
    \cup ListsOf(ListedLeads)

\* QualificationManager(name) has been built; the caller holds a list of leads
InitQualification ==
    /\ \E name \in FrameworkNames, processed \in QualificationInputs :
          /\ active_framework = validate_framework(name)
          /\ arg = [framework |-> name, leads |-> processed]
    /\ op = "__init__"
    /\ result = None
    /\ raw_icp_definition = None /\ parsed_icp = None /\ bucket_thresholds = None
    /\ current_stage = "icp_definition" /\ icp_definition = None /\ icp_scorer = FALSE
    /\ leads = None /\ processed_leads = None /\ researched_leads = None
    /\ qualified_leads = None /\ engaged_leads = None /\ booked_leads = None
    /\ crm_outcomes = << >> /\ api_keys = {} /\ raised = None

\* what a call on the qualification manager leaves alone
ManagerUnchanged ==
    UNCHANGED <<raw_icp_definition, parsed_icp, bucket_thresholds, current_stage,
                icp_definition, icp_scorer, leads, processed_leads, researched_leads,
                qualified_leads, engaged_leads, booked_leads, crm_outcomes, api_keys,
                raised>>

\* QualificationManager.set_framework(framework)
SetFramework ==
    /\ \E framework \in FrameworkNames :
          /\ active_framework' = validate_framework(framework)
          /\ arg' = [arg EXCEPT !.framework = framework]
    /\ op' = "set_framework"
    /\ result' = Returned(None)
    /\ ManagerUnchanged

\* QualificationManager.run(processed_leads)
QualificationRun ==
    /\ LET ran == qualification_run(active_framework, arg.leads)
       IN  /\ arg' = [arg EXCEPT !.leads = ran.processed_leads]
           /\ result' = Returned(ran.filtered_leads)
    /\ op' = "run"
    /\ UNCHANGED active_framework
    /\ ManagerUnchanged

NextQualification ==
    \/ SetFramework
    \/ QualificationRun

SpecQualification == InitQualification /\ [][NextQualification]_vars

\* the four supported framework names
Supported == {"BANT", "MEDDIC", "CHAMP", "Custom"}

\* C22: active_framework is always one of BANT, MEDDIC, CHAMP, Custom: after
\* construction and after any sequence of set_framework calls with arbitrary
\* names, set_framework(f) leaves active_framework = f when f is supported and
\* = BANT when it is not, so run dispatches to exactly one framework.
C22_ActiveFrameworkSupported ==
    /\ active_framework \in Supported
    /\ op \in {"__init__", "set_framework"} =>
          active_framework = (IF arg.framework \in Supported THEN arg.framework ELSE "BANT")
    /\ Cardinality({i \in 1..Len(supported_frameworks) :
                       supported_frameworks[i] = active_framework}) = 1

\* C22 witness: with MEDDIC active, set_framework was called with an
\* unsupported name after a run.
C22_Witness ==
    /\ op = "set_framework"
    /\ arg.framework = "SPIN"
    /\ active_framework = "BANT"
    /\ \E i \in 1..Len(arg.leads) :
          "qualified" \in DOMAIN arg.leads[i] /\ arg.leads[i].qualification_score = 85

\* the criteria of the frameworks as the claims state them: the field, whether
\* it is a flag, the values that satisfy it otherwise, and the points
FrameworkCriteria ==
    [BANT |->
        <<[field |-> "budget_indicated", flag |-> TRUE, values |-> {}, points |-> 30],
          [field |-> "contact_authority", flag |-> FALSE,
           values |-> {"Decision Maker", "Influencer"}, points |-> 30],
          [field |-> "identified_need", flag |-> TRUE, values |-> {}, points |-> 25],
          [field |-> "purchase_timeline", flag |-> FALSE,
           values |-> {"0-3 months", "3-6 months"}, points |-> 15]>>,
     MEDDIC |->
        <<[field |-> "business_metrics", flag |-> TRUE, values |-> {}, points |-> 20],
          [field |-> "contact_role", flag |-> FALSE, values |-> {"Economic Buyer"},
           points |-> 20],
          [field |-> "decision_criteria", flag |-> TRUE, values |-> {}, points |-> 15],
          [field |-> "decision_process", flag |-> TRUE, values |-> {}, points |-> 15],
          [field |-> "identified_pain", flag |-> TRUE, values |-> {}, points |-> 15],
          [field |-> "internal_champion", flag |-> TRUE, values |-> {}, points |-> 15]>>,
     CHAMP |->
        <<[field |-> "identified_challenges", flag |-> TRUE, values |-> {}, points |-> 30],
          [field |-> "contact_authority", flag |-> FALSE, values |-> {"Decision Maker"},
           points |-> 30],
          [field |-> "budget_approved", flag |-> TRUE, values |-> {}, points |-> 25],
          [field |-> "initiative_priority", flag |-> FALSE, values |-> {"High"},
           points |-> 15]>>,
     Custom |-> << >>]

\* criterion c holds of the lead
Meets(lead, c) ==
    /\ c.field \in DOMAIN lead
    /\ IF c.flag THEN lead[c.field] = TRUE ELSE lead[c.field] \in c.values

\* the criteria of the framework that hold of the lead
MetCriteria(framework, lead) ==
    {i \in 1..Len(FrameworkCriteria[framework]) : Meets(lead, FrameworkCriteria[framework][i])}

\* the points of the criteria 1..n of the framework that hold of the lead
RECURSIVE FrameworkPoints(_, _, _)
FrameworkPoints(framework, lead, n) ==
    IF n = 0 THEN 0
    ELSE FrameworkPoints(framework, lead, n - 1)
         + (IF n \in MetCriteria(framework, lead)
            THEN FrameworkCriteria[framework][n].points ELSE 0)

\* the score the active framework's thresholds are about
FrameworkScore(lead) ==
    FrameworkPoints(active_framework, lead, Len(FrameworkCriteria[active_framework]))

\* the lead's score reaches the threshold of the active framework
ReachesThreshold(lead) ==
    CASE active_framework = "BANT"   -> FrameworkScore(lead) >= 70
      [] active_framework = "MEDDIC" -> FrameworkScore(lead) >= 80
      [] active_framework = "CHAMP"  -> FrameworkScore(lead) >= 75
      [] active_framework = "Custom" -> FALSE

MetCount(lead) == Cardinality(MetCriteria(active_framework, lead))

\* C29: under BANT a lead qualifies iff at least three of its four criteria
\* hold; under MEDDIC iff at most one of its six criteria fails; under CHAMP
\* only if identified_challenges is set and contact_authority is "Decision
\* Maker", and then iff at most one of budget_approved and high
\* initiative_priority fails.
C29_ThresholdsAsCounts ==
    op = "run" =>
        \A i \in 1..Len(arg.leads) :
            LET lead == arg.leads[i]
            IN  /\ active_framework = "BANT" => (lead.qualified <=> MetCount(lead) >= 3)
                /\ active_framework = "MEDDIC" => (lead.qualified <=> MetCount(lead) >= 5)
                /\ active_framework = "CHAMP" =>
                      (lead.qualified <=>
                          /\ {1, 2} \subseteq MetCriteria("CHAMP", lead)
                          /\ Cardinality(MetCriteria("CHAMP", lead) \cap {3, 4}) >= 1)

\* C29 witness: under BANT, run has qualified a lead with three of the four
\* criteria, the 15-point one among them.
C29_Witness ==
    /\ op = "run"
    /\ active_framework = "BANT"
    /\ \E i \in 1..Len(arg.leads) :
          /\ arg.leads[i].qualified
          /\ MetCriteria("BANT", arg.leads[i]) = {1, 3, 4}

---------------------------------------------------------------------------
(* The stage objects on their own.  A caller holds a list of lead records  *)
(* and passes it to LeadDataProcessor.run, ResearchEngine.run,             *)
(* EngagementOrchestrator.run, MeetingBooker.run and CRMHandler.run (with  *)
(* the learning engine attached), in the order of the pipeline, leaving    *)
(* out or repeating any of them, and asks the learning engine for its      *)
(* analysis before or after a handoff; each run updates the lead objects   *)
(* of the list in place.  arg is the caller's list, result what the last   *)
(* call returned.                                                          *)

\* the most outcomes the learning engine records
MaxOutcomes == 4

\* the record with the fields of both records, b's values winning
Merge(a, b) ==
    [k \in (DOMAIN a) \cup (DOMAIN b) |-> IF k \in DOMAIN b THEN b[k] ELSE a[k]]

\* what discovery and processing left in a lead
LeadOrigins ==
    {[id |-> "a"],
     [id |-> "b", icp_score |-> 8000, website |-> "https://acme.example",
      contact_raw |-> [emails |-> <<"vp@acme.example">>], contact_phone |-> "555-0100"],
     [id |-> "c", icp_score |-> 4000, website |-> "acme.example",
      contact_raw |-> [emails |-> << >>]]}

\* the bucket the scoring loop gave, if any
LeadBuckets ==
    {EmptyDict, [lead_bucket |-> "hot"], [lead_bucket |-> "warm"], [lead_bucket |-> "cold"]}

\* the responses to the engagement, if any
LeadResponses ==
    {EmptyDict, [email_sequence_responded |-> TRUE], [voice_message_responded |-> TRUE],
     [email_sequence_responded |-> FALSE, voice_message_responded |-> FALSE]}

StageLeads ==
    {Merge(Merge(o, b), r) : o \in LeadOrigins, b \in LeadBuckets, r \in LeadResponses}

\* the leads of the longer lists
ListedStageLeads ==
    {[id |-> "a", lead_bucket |-> "warm", email_sequence_responded |-> TRUE],
     [id |-> "b", icp_score |-> 8000, lead_bucket |-> "hot", contact_phone |-> "555-0100",
      website |-> "https://acme.example", voice_message_responded |-> TRUE],
     [id |-> "c", icp_score |-> 4000, lead_bucket |-> "cold"]}

StageInputs == {<<lead>> : lead \in StageLeads} \cup ListsOf(ListedStageLeads)

\* the keys the stage objects read
StageKeys == {"ELEVENLABS_API_KEY", "CALENDAR_API_KEY", "CRM_API_KEY"}

InitStages ==
    /\ AgentInit
    /\ api_keys \in SUBSET StageKeys
    /\ arg \in StageInputs
    /\ op = "new"
    /\ result = None
    /\ raw_icp_definition = None
    /\ parsed_icp = None
    /\ bucket_thresholds = None

\* what a call of a stage object leaves alone
StageUnchanged ==
    UNCHANGED <<raw_icp_definition, parsed_icp, bucket_thresholds, current_stage,
                icp_definition, icp_scorer, leads, processed_leads, researched_leads,
                qualified_leads, engaged_leads, booked_leads, active_framework,
                api_keys, raised>>

\* the place of a call in the pipeline
StageRank(call) ==
    CASE call = "new"                        -> 0
      [] call = "LeadDataProcessor.run"      -> 1
      [] call = "ResearchEngine.run"         -> 2
      [] call = "EngagementOrchestrator.run" -> 3
      [] call = "MeetingBooker.run"          -> 4
      [] call = "CRMHandler.run"             -> 5
      [] call = "analyze_outcomes"           -> 5

\* the caller may make the call now
MayCall(call) == StageRank(op) <= StageRank(call)

\* LeadDataProcessor.run(raw_leads)
ProcessorRun ==
    /\ MayCall("LeadDataProcessor.run")
    /\ arg' = process_lead_data(arg)
    /\ result' = Returned(arg')
    /\ op' = "LeadDataProcessor.run"
    /\ UNCHANGED crm_outcomes /\ StageUnchanged

\* ResearchEngine.run(leads)
ResearchRun ==
    /\ MayCall("ResearchEngine.run")
    /\ arg' = research_run(arg)
    /\ result' = Returned(arg')
    /\ op' = "ResearchEngine.run"
    /\ UNCHANGED crm_outcomes /\ StageUnchanged

\* EngagementOrchestrator.run(qualified_leads)
EngagementRun ==
    /\ MayCall("EngagementOrchestrator.run")
    /\ \E sent \in [1..Len(arg) -> BOOLEAN] :
          arg' = [i \in 1..Len(arg) |-> engage_lead(api_keys, arg[i], sent[i])]
    /\ result' = Returned(arg')
    /\ op' = "EngagementOrchestrator.run"
    /\ UNCHANGED crm_outcomes /\ StageUnchanged

\* MeetingBooker.run(engaged_leads)
BookingRun ==
    /\ MayCall("MeetingBooker.run")
    /\ arg' = [i \in 1..Len(arg) |-> book_lead(api_keys, arg[i])]
    /\ result' = Returned(arg')
    /\ op' = "MeetingBooker.run"
    /\ UNCHANGED crm_outcomes /\ StageUnchanged

\* CRMHandler.run(booked_leads)
HandoffRun ==
    /\ MayCall("CRMHandler.run")
    /\ Len(crm_outcomes) + Len(arg) <= MaxOutcomes
    /\ \E created \in [1..Len(arg) -> BOOLEAN] :
          LET handed == [i \in 1..Len(arg) |-> hand_off_lead(api_keys, arg[i], created[i])]
          IN  /\ arg' = [i \in 1..Len(handed) |-> handed[i].lead]
              /\ crm_outcomes' =
                    crm_outcomes \o Concat([i \in 1..Len(handed) |-> handed[i].outcomes])
    /\ result' = Returned(arg')
    /\ op' = "CRMHandler.run"
    /\ StageUnchanged

\* LearningEngine.analyze_outcomes()
AnalyzeOutcomes ==
    /\ MayCall("analyze_outcomes")
    /\ result' = analyze_outcomes(crm_outcomes)
    /\ op' = "analyze_outcomes"
    /\ UNCHANGED <<arg, crm_outcomes>> /\ StageUnchanged

NextStages ==
    \/ ProcessorRun
    \/ ResearchRun
    \/ EngagementRun
    \/ BookingRun
    \/ HandoffRun
    \/ AnalyzeOutcomes

SpecStages == InitStages /\ [][NextStages]_vars

\* the lead responded to the engagement
Responded(lead) ==
    Flag(lead, "email_sequence_responded") \/ Flag(lead, "voice_message_responded")

\* C24: across the booking and handoff stages, a meeting is scheduled for a
\* lead only if the lead responded to engagement and a calendar API key is
\* configured, and create_crm_deal is invoked for a lead only if that lead's
\* meeting_booking.scheduled is true; leads without a scheduled meeting pass
\* through handoff with no crm_deal attached.
C24_DealsOnlyForScheduledMeetings ==
    /\ \A i \in 1..Len(arg) :
          /\ IsScheduled(arg[i]) => (Responded(arg[i]) /\ "CALENDAR_API_KEY" \in api_keys)
          /\ "meeting_booking" \in DOMAIN arg[i] => Responded(arg[i])
          /\ "crm_deal" \in DOMAIN arg[i] => IsScheduled(arg[i])
    /\ \A k \in 1..Len(crm_outcomes) : IsScheduled(crm_outcomes[k].lead_data)

\* C24 witness: a handoff of two leads has attached a deal to the one with a
\* scheduled meeting and none to the other, which never responded.
C24_Witness ==
    /\ op = "CRMHandler.run"
    /\ Len(arg) = 2
    /\ "crm_deal" \in DOMAIN arg[1] /\ arg[1].crm_deal.deal_created
    /\ "crm_deal" \notin DOMAIN arg[2] /\ ~Responded(arg[2])

\* the delay_hours of the messages of the two sequences, as the claim has them
HotSequence == <<0, 24, 48>>

WarmSequence == <<0, 72>>

\* C25: a lead whose lead_bucket is "hot" receives the three-message hot_lead
\* sequence (delays 0, 24, 48 hours), a lead whose lead_bucket is "warm" or
\* missing receives the two-message warm_lead sequence (delays 0, 72 hours),
\* and a voice message is attempted only for leads whose lead_bucket is "hot".
C25_SequenceByBucket ==
    op = "EngagementOrchestrator.run" =>
        \A i \in 1..Len(arg) :
            LET lead == arg[i]
                hot  == "lead_bucket" \in DOMAIN lead /\ lead.lead_bucket = "hot"
                warm == "lead_bucket" \notin DOMAIN lead \/ lead.lead_bucket = "warm"
            IN  /\ hot => lead.email_sequence = HotSequence
                /\ warm => lead.email_sequence = WarmSequence
                /\ "voice_message_sent" \in DOMAIN lead => hot

\* the rest of C25 without the hot sequence
C25_WarmAndVoice ==
    op = "EngagementOrchestrator.run" =>
        \A i \in 1..Len(arg) :
            LET lead == arg[i]
                hot  == "lead_bucket" \in DOMAIN lead /\ lead.lead_bucket = "hot"
                warm == "lead_bucket" \notin DOMAIN lead \/ lead.lead_bucket = "warm"
            IN  /\ warm => lead.email_sequence = WarmSequence
                /\ "voice_message_sent" \in DOMAIN lead <=> hot

\* the ids of a list of leads
Ids(list) == [i \in 1..Len(list) |-> list[i].id]

\* C27: after any sequence of CRMHandler.run calls with a learning engine
\* attached, crm_outcomes is append-only and a handoff adds exactly one
\* outcome, in handoff order, for each lead that had a scheduled meeting
\* (whether or not its deal was created); analyze_outcomes reports
\* total_outcomes = successful_deals + failed_deals with every outcome counted
\* in one of the two, and returns the "No data to analyze." result exactly
\* when no outcome was recorded.
C27_OutcomesRecordedAndCounted ==
    [][ /\ Len(crm_outcomes') >= Len(crm_outcomes)
        /\ SubSeq(crm_outcomes', 1, Len(crm_outcomes)) = crm_outcomes
        /\ op' = "CRMHandler.run" =>
              [k \in 1..(Len(crm_outcomes') - Len(crm_outcomes)) |->
                  crm_outcomes'[Len(crm_outcomes) + k].lead_id]
                 = Ids(SelectSeq(arg', IsScheduled))
        /\ op' # "CRMHandler.run" => crm_outcomes' = crm_outcomes
        /\ op' = "analyze_outcomes" =>
              /\ result'.kind = "return"
              /\ IF crm_outcomes = << >>
                 THEN result'.value.insights = "No data to analyze."
                 ELSE LET insights == result'.value.insights
                      IN  /\ insights.total_outcomes = Len(crm_outcomes)
                          /\ insights.total_outcomes
                                = insights.successful_deals + insights.failed_deals ]_vars

\* C27 without the answer of analyze_outcomes having to be a return
C27_WhenAnalysisReturns ==
    [][ /\ SubSeq(crm_outcomes', 1, Len(crm_outcomes)) = crm_outcomes
        /\ op' = "CRMHandler.run" =>
              [k \in 1..(Len(crm_outcomes') - Len(crm_outcomes)) |->
                  crm_outcomes'[Len(crm_outcomes) + k].lead_id]
                 = Ids(SelectSeq(arg', IsScheduled))
        /\ (op' = "analyze_outcomes" /\ result'.kind = "return") =>
              IF crm_outcomes = << >>
              THEN result'.value.insights = "No data to analyze."
              ELSE LET insights == result'.value.insights
                   IN  /\ insights.total_outcomes = Len(crm_outcomes)
                       /\ insights.total_outcomes
                             = insights.successful_deals + insights.failed_deals ]_vars

\* the run methods of the stages that keep the lead list
ListKeepingRuns ==
    {"LeadDataProcessor.run", "ResearchEngine.run", "EngagementOrchestrator.run",
     "MeetingBooker.run", "CRMHandler.run"}

\* C28: LeadDataProcessor.run, ResearchEngine.run, EngagementOrchestrator.run,
\* MeetingBooker.run and CRMHandler.run each return the same leads in the same
\* order and number as they were given, only adding fields.
C28_StagesKeepTheLeadList ==
    [][ op' \in ListKeepingRuns =>
            /\ result'.value = arg'
            /\ Len(arg') = Len(arg)
            /\ \A i \in 1..Len(arg) :
                  /\ DOMAIN arg[i] \subseteq DOMAIN arg'[i]
                  /\ arg'[i].id = arg[i].id ]_vars

\* C28 witness: two leads have gone through research, engagement, booking and
\* handoff, and the one without a domain is still in the list.
C28_Witness ==
    /\ op = "CRMHandler.run"
    /\ Len(arg) = 2
    /\ "financials" \in DOMAIN arg[1] /\ "domain" \notin DOMAIN arg[2]
    /\ "email_sequence" \in DOMAIN arg[2]
    /\ "crm_deal" \in DOMAIN arg[1]

\* C30: for every ICP definition that validate_icp accepts, the count of
\* defined criteria is at least 3, so check_icp_quality never labels an
\* accepted ICP "Too Broad" and never estimates its market size as
\* "10,000,000+".
C30_AcceptedIcpNotTooBroad ==
    validate_icp(parsed_icp).is_valid =>
        /\ DefinedCount(parsed_icp) >= 3
        /\ op = "check_icp_quality" =>
              /\ result.kind = "return"
              /\ result.value.breadth_narrowness # "Too Broad"
              /\ result.value.market_size_estimate # SIZE_very_broad

\* C30 witness: check_icp_quality has answered for an accepted ICP of exactly
\* three defined criteria.
C30_Witness ==
    /\ op = "check_icp_quality"
    /\ validate_icp(parsed_icp).is_valid
    /\ DefinedCount(parsed_icp) = 3
    /\ result.value.breadth_narrowness = "Well-defined"

---------------------------------------------------------------------------
(* ICPWizard (src/icp/wizard.py): the texts of the pre-built templates.    *)

\* "B2B SaaS, Project Management"
TPL1_industry_vertical ==
    <<"B","2","B"," ","S","a","a","S",","," ","P","r","o","j","e","c","t"," ","M","a","n","a",
      "g","e","m","e","n","t">>

\* "10-50 employees, $1M-$10M revenue"
TPL1_company_size ==
    <<"1","0","-","5","0"," ","e","m","p","l","o","y","e","e","s",","," ","$","1","M","-","$",
      "1","0","M"," ","r","e","v","e","n","u","e">>

\* "North America, Europe (UTC-5 to UTC+2)"
TPL1_geography ==
    <<"N","o","r","t","h"," ","A","m","e","r","i","c","a",","," ","E","u","r","o","p","e"," ",
      "(","U","T","C","-","5"," ","t","o"," ","U","T","C","+","2",")">>

\* "Salesforce, HubSpot, Slack"
TPL1_technology_stack ==
    <<"S","a","l","e","s","f","o","r","c","e",","," ","H","u","b","S","p","o","t",","," ","S",
      "l","a","c","k">>

\* "B2B, Subscription-based"
TPL1_business_model ==
    <<"B","2","B",","," ","S","u","b","s","c","r","i","p","t","i","o","n","-","b","a","s","e",
      "d">>

\* "Seed, Series A, Hiring Sales Team"
TPL1_funding_growth ==
    <<"S","e","e","d",","," ","S","e","r","i","e","s"," ","A",","," ","H","i","r","i","n","g",
      " ","S","a","l","e","s"," ","T","e","a","m">>

\* "VP Operations, Director of Project Management, Mid-Senior"
TPL1_decision_maker_profile ==
    <<"V","P"," ","O","p","e","r","a","t","i","o","n","s",","," ","D","i","r","e","c","t","o",
      "r"," ","o","f"," ","P","r","o","j","e","c","t"," ","M","a","n","a","g","e","m","e","n",
      "t",","," ","M","i","d","-","S","e","n","i","o","r">>

\* "Inefficient team collaboration, Lack of project visibility, High tool fragmentation"
TPL1_pain_points ==
    <<"I","n","e","f","f","i","c","i","e","n","t"," ","t","e","a","m"," ","c","o","l","l","a",
      "b","o","r","a","t","i","o","n",","," ","L","a","c","k"," ","o","f"," ","p","r","o","j",
      "e","c","t"," ","v","i","s","i","b","i","l","i","t","y",","," ","H","i","g","h"," ","t",
      "o","o","l"," ","f","r","a","g","m","e","n","t","a","t","i","o","n">>

\* "6-8 week sales cycle, Cross-departmental approval, $5k-$20k annual budget"
TPL1_buying_behavior ==
    <<"6","-","8"," ","w","e","e","k"," ","s","a","l","e","s"," ","c","y","c","l","e",","," ",
      "C","r","o","s","s","-","d","e","p","a","r","t","m","e","n","t","a","l"," ","a","p","p",
      "r","o","v","a","l",","," ","$","5","k","-","$","2","0","k"," ","a","n","n","u","a","l",
      " ","b","u","d","g","e","t">>

\* "Job postings for project managers, Recent funding announcements, Tech stack changes to collaboration tools"
TPL1_intent_signals ==
    <<"J","o","b"," ","p","o","s","t","i","n","g","s"," ","f","o","r"," ","p","r","o","j","e",
      "c","t"," ","m","a","n","a","g","e","r","s",","," ","R","e","c","e","n","t"," ","f","u",
      "n","d","i","n","g"," ","a","n","n","o","u","n","c","e","m","e","n","t","s",","," ","T",
      "e","c","h"," ","s","t","a","c","k"," ","c","h","a","n","g","e","s"," ","t","o"," ","c",
      "o","l","l","a","b","o","r","a","t","i","o","n"," ","t","o","o","l","s">>

\* "Downloaded project management whitepapers, Attended collaboration webinars"
TPL1_content_engagement ==
    <<"D","o","w","n","l","o","a","d","e","d"," ","p","r","o","j","e","c","t"," ","m","a","n",
      "a","g","e","m","e","n","t"," ","w","h","i","t","e","p","a","p","e","r","s",","," ","A",
      "t","t","e","n","d","e","d"," ","c","o","l","l","a","b","o","r","a","t","i","o","n"," ",
      "w","e","b","i","n","a","r","s">>

\* "D2C E-commerce, Sustainable Fashion"
TPL2_industry_vertical ==
    <<"D","2","C"," ","E","-","c","o","m","m","e","r","c","e",","," ","S","u","s","t","a","i",
      "n","a","b","l","e"," ","F","a","s","h","i","o","n">>

\* "50-200 employees, $10M-$50M revenue"
TPL2_company_size ==
    <<"5","0","-","2","0","0"," ","e","m","p","l","o","y","e","e","s",","," ","$","1","0","M",
      "-","$","5","0","M"," ","r","e","v","e","n","u","e">>

\* "North America, Australia (UTC-8 to UTC+10)"
TPL2_geography ==
    <<"N","o","r","t","h"," ","A","m","e","r","i","c","a",","," ","A","u","s","t","r","a","l",
      "i","a"," ","(","U","T","C","-","8"," ","t","o"," ","U","T","C","+","1","0",")">>

\* "Shopify, Klaviyo, Instagram Shopping"
TPL2_technology_stack ==
    <<"S","h","o","p","i","f","y",","," ","K","l","a","v","i","y","o",","," ","I","n","s","t",
      "a","g","r","a","m"," ","S","h","o","p","p","i","n","g">>

\* "D2C, Direct-to-consumer"
TPL2_business_model ==
    <<"D","2","C",","," ","D","i","r","e","c","t","-","t","o","-","c","o","n","s","u","m","e",
      "r">>

\* "Series A, Series B, Expanding to new markets"
TPL2_funding_growth ==
    <<"S","e","r","i","e","s"," ","A",","," ","S","e","r","i","e","s"," ","B",","," ","E","x",
      "p","a","n","d","i","n","g"," ","t","o"," ","n","e","w"," ","m","a","r","k","e","t","s">>

\* "CMO, Director of E-commerce, Senior"
TPL2_decision_maker_profile ==
    <<"C","M","O",","," ","D","i","r","e","c","t","o","r"," ","o","f"," ","E","-","c","o","m",
      "m","e","r","c","e",","," ","S","e","n","i","o","r">>

\* "Low customer retention, High cart abandonment, Ineffective email marketing"
TPL2_pain_points ==
    <<"L","o","w"," ","c","u","s","t","o","m","e","r"," ","r","e","t","e","n","t","i","o","n",
      ","," ","H","i","g","h"," ","c","a","r","t"," ","a","b","a","n","d","o","n","m","e","n",
      "t",","," ","I","n","e","f","f","e","c","t","i","v","e"," ","e","m","a","i","l"," ","m",
      "a","r","k","e","t","i","n","g">>

\* "4-6 week sales cycle, Marketing team approval, $10k-$50k annual budget"
TPL2_buying_behavior ==
    <<"4","-","6"," ","w","e","e","k"," ","s","a","l","e","s"," ","c","y","c","l","e",","," ",
      "M","a","r","k","e","t","i","n","g"," ","t","e","a","m"," ","a","p","p","r","o","v","a",
      "l",","," ","$","1","0","k","-","$","5","0","k"," ","a","n","n","u","a","l"," ","b","u",
      "d","g","e","t">>

\* "Hiring for e-commerce marketers, Recent product launches, Competitor discount campaigns"
TPL2_intent_signals ==
    <<"H","i","r","i","n","g"," ","f","o","r"," ","e","-","c","o","m","m","e","r","c","e"," ",
      "m","a","r","k","e","t","e","r","s",","," ","R","e","c","e","n","t"," ","p","r","o","d",
      "u","c","t"," ","l","a","u","n","c","h","e","s",","," ","C","o","m","p","e","t","i","t",
      "o","r"," ","d","i","s","c","o","u","n","t"," ","c","a","m","p","a","i","g","n","s">>

\* "Viewed sustainable fashion case studies, Signed up for email newsletters"
TPL2_content_engagement ==
    <<"V","i","e","w","e","d"," ","s","u","s","t","a","i","n","a","b","l","e"," ","f","a","s",
      "h","i","o","n"," ","c","a","s","e"," ","s","t","u","d","i","e","s",","," ","S","i","g",
      "n","e","d"," ","u","p"," ","f","o","r"," ","e","m","a","i","l"," ","n","e","w","s","l",
      "e","t","t","e","r","s">>

\* "Healthcare Technology, Digital Health"
TPL3_industry_vertical ==
    <<"H","e","a","l","t","h","c","a","r","e"," ","T","e","c","h","n","o","l","o","g","y",",",
      " ","D","i","g","i","t","a","l"," ","H","e","a","l","t","h">>

\* "100-500 employees, $20M-$100M revenue"
TPL3_company_size ==
    <<"1","0","0","-","5","0","0"," ","e","m","p","l","o","y","e","e","s",","," ","$","2","0",
      "M","-","$","1","0","0","M"," ","r","e","v","e","n","u","e">>

\* "USA (EST, PST), Canada"
TPL3_geography ==
    <<"U","S","A"," ","(","E","S","T",","," ","P","S","T",")",","," ","C","a","n","a","d","a">>

\* "HL7, FHIR, AWS, Epic, Cerner"
TPL3_technology_stack ==
    <<"H","L","7",","," ","F","H","I","R",","," ","A","W","S",","," ","E","p","i","c",","," ",
      "C","e","r","n","e","r">>

\* "B2B, SaaS, Enterprise"
TPL3_business_model ==
    <<"B","2","B",","," ","S","a","a","S",","," ","E","n","t","e","r","p","r","i","s","e">>

\* "Series B, Series C, Expanding product lines"
TPL3_funding_growth ==
    <<"S","e","r","i","e","s"," ","B",","," ","S","e","r","i","e","s"," ","C",","," ","E","x",
      "p","a","n","d","i","n","g"," ","p","r","o","d","u","c","t"," ","l","i","n","e","s">>

\* "CIO, VP Product, Head of Digital Health, Director of IT, Senior"
TPL3_decision_maker_profile ==
    <<"C","I","O",","," ","V","P"," ","P","r","o","d","u","c","t",","," ","H","e","a","d"," ",
      "o","f"," ","D","i","g","i","t","a","l"," ","H","e","a","l","t","h",","," ","D","i","r",
      "e","c","t","o","r"," ","o","f"," ","I","T",","," ","S","e","n","i","o","r">>

\* "Interoperability challenges, Regulatory compliance (HIPAA), Data security, Legacy system integration"
TPL3_pain_points ==
    <<"I","n","t","e","r","o","p","e","r","a","b","i","l","i","t","y"," ","c","h","a","l","l",
      "e","n","g","e","s",","," ","R","e","g","u","l","a","t","o","r","y"," ","c","o","m","p",
      "l","i","a","n","c","e"," ","(","H","I","P","A","A",")",","," ","D","a","t","a"," ","s",
      "e","c","u","r","i","t","y",","," ","L","e","g","a","c","y"," ","s","y","s","t","e","m",
      " ","i","n","t","e","g","r","a","t","i","o","n">>

\* "6-12 month sales cycle, Clinical and IT stakeholder approval, $50k-$200k annual budget"
TPL3_buying_behavior ==
    <<"6","-","1","2"," ","m","o","n","t","h"," ","s","a","l","e","s"," ","c","y","c","l","e",
      ","," ","C","l","i","n","i","c","a","l"," ","a","n","d"," ","I","T"," ","s","t","a","k",
      "e","h","o","l","d","e","r"," ","a","p","p","r","o","v","a","l",","," ","$","5","0","k",
      "-","$","2","0","0","k"," ","a","n","n","u","a","l"," ","b","u","d","g","e","t">>

\* "New healthcare regulations, Hospital system mergers, EHR upgrades, Funding for digital health initiatives"
TPL3_intent_signals ==
    <<"N","e","w"," ","h","e","a","l","t","h","c","a","r","e"," ","r","e","g","u","l","a","t",
      "i","o","n","s",","," ","H","o","s","p","i","t","a","l"," ","s","y","s","t","e","m"," ",
      "m","e","r","g","e","r","s",","," ","E","H","R"," ","u","p","g","r","a","d","e","s",",",
      " ","F","u","n","d","i","n","g"," ","f","o","r"," ","d","i","g","i","t","a","l"," ","h",
      "e","a","l","t","h"," ","i","n","i","t","i","a","t","i","v","e","s">>

\* "Downloaded healthcare IT whitepapers, Attended HIMSS conference, Engaged with health tech webinars"
TPL3_content_engagement ==
    <<"D","o","w","n","l","o","a","d","e","d"," ","h","e","a","l","t","h","c","a","r","e"," ",
      "I","T"," ","w","h","i","t","e","p","a","p","e","r","s",","," ","A","t","t","e","n","d",
      "e","d"," ","H","I","M","S","S"," ","c","o","n","f","e","r","e","n","c","e",","," ","E",
      "n","g","a","g","e","d"," ","w","i","t","h"," ","h","e","a","l","t","h"," ","t","e","c",
      "h"," ","w","e","b","i","n","a","r","s">>

\* "Financial Technology, RegTech, Payments"
TPL4_industry_vertical ==
    <<"F","i","n","a","n","c","i","a","l"," ","T","e","c","h","n","o","l","o","g","y",","," ",
      "R","e","g","T","e","c","h",","," ","P","a","y","m","e","n","t","s">>

\* "50-300 employees, $10M-$75M revenue"
TPL4_company_size ==
    <<"5","0","-","3","0","0"," ","e","m","p","l","o","y","e","e","s",","," ","$","1","0","M",
      "-","$","7","5","M"," ","r","e","v","e","n","u","e">>

\* "Global (London, New York, Singapore)"
TPL4_geography ==
    <<"G","l","o","b","a","l"," ","(","L","o","n","d","o","n",","," ","N","e","w"," ","Y","o",
      "r","k",","," ","S","i","n","g","a","p","o","r","e",")">>

\* "AWS, Azure, Kubernetes, Kafka, Murex"
TPL4_technology_stack ==
    <<"A","W","S",","," ","A","z","u","r","e",","," ","K","u","b","e","r","n","e","t","e","s",
      ","," ","K","a","f","k","a",","," ","M","u","r","e","x">>

\* "B2B, SaaS, API-first"
TPL4_business_model ==
    <<"B","2","B",","," ","S","a","a","S",","," ","A","P","I","-","f","i","r","s","t">>

\* "Series A, Series B, Expanding into new markets"
TPL4_funding_growth ==
    <<"S","e","r","i","e","s"," ","A",","," ","S","e","r","i","e","s"," ","B",","," ","E","x",
      "p","a","n","d","i","n","g"," ","i","n","t","o"," ","n","e","w"," ","m","a","r","k","e",
      "t","s">>

\* "CTO, Head of Compliance, VP Risk, Director of Payments, Senior"
TPL4_decision_maker_profile ==
    <<"C","T","O",","," ","H","e","a","d"," ","o","f"," ","C","o","m","p","l","i","a","n","c",
      "e",","," ","V","P"," ","R","i","s","k",","," ","D","i","r","e","c","t","o","r"," ","o",
      "f"," ","P","a","y","m","e","n","t","s",","," ","S","e","n","i","o","r">>

\* "Regulatory burden (GDPR, PSD2), Fraud detection, Legacy infrastructure, Scalability issues"
TPL4_pain_points ==
    <<"R","e","g","u","l","a","t","o","r","y"," ","b","u","r","d","e","n"," ","(","G","D","P",
      "R",","," ","P","S","D","2",")",","," ","F","r","a","u","d"," ","d","e","t","e","c","t",
      "i","o","n",","," ","L","e","g","a","c","y"," ","i","n","f","r","a","s","t","r","u","c",
      "t","u","r","e",","," ","S","c","a","l","a","b","i","l","i","t","y"," ","i","s","s","u",
      "e","s">>

\* "8-14 month sales cycle, Legal and Security review, $75k-$300k annual budget"
TPL4_buying_behavior ==
    <<"8","-","1","4"," ","m","o","n","t","h"," ","s","a","l","e","s"," ","c","y","c","l","e",
      ","," ","L","e","g","a","l"," ","a","n","d"," ","S","e","c","u","r","i","t","y"," ","r",
      "e","v","i","e","w",","," ","$","7","5","k","-","$","3","0","0","k"," ","a","n","n","u",
      "a","l"," ","b","u","d","g","e","t">>

\* "New financial regulations, Major security breaches in finance, Partnership announcements, Funding for FinTech startups"
TPL4_intent_signals ==
    <<"N","e","w"," ","f","i","n","a","n","c","i","a","l"," ","r","e","g","u","l","a","t","i",
      "o","n","s",","," ","M","a","j","o","r"," ","s","e","c","u","r","i","t","y"," ","b","r",
      "e","a","c","h","e","s"," ","i","n"," ","f","i","n","a","n","c","e",","," ","P","a","r",
      "t","n","e","r","s","h","i","p"," ","a","n","n","o","u","n","c","e","m","e","n","t","s",
      ","," ","F","u","n","d","i","n","g"," ","f","o","r"," ","F","i","n","T","e","c","h"," ",
      "s","t","a","r","t","u","p","s">>

\* "Read FinTech trend reports, Attended Money20/20, Engaged with regulatory compliance webinars"
TPL4_content_engagement ==
    <<"R","e","a","d"," ","F","i","n","T","e","c","h"," ","t","r","e","n","d"," ","r","e","p",
      "o","r","t","s",","," ","A","t","t","e","n","d","e","d"," ","M","o","n","e","y","2","0",
      "/","2","0",","," ","E","n","g","a","g","e","d"," ","w","i","t","h"," ","r","e","g","u",
      "l","a","t","o","r","y"," ","c","o","m","p","l","i","a","n","c","e"," ","w","e","b","i",
      "n","a","r","s">>

\* the template "B2B SaaS (SMB)"
TEMPLATE_1 ==
    [company_characteristics |->
        [industry_vertical |-> TPL1_industry_vertical,
         company_size |-> TPL1_company_size,
         geography |-> TPL1_geography,
         technology_stack |-> TPL1_technology_stack,
         business_model |-> TPL1_business_model,
         funding_growth |-> TPL1_funding_growth],
     buyer_persona |->
        [decision_maker_profile |-> TPL1_decision_maker_profile,
         pain_points |-> TPL1_pain_points,
         buying_behavior |-> TPL1_buying_behavior],
     engagement_signals |->
        [intent_signals |-> TPL1_intent_signals,
         content_engagement |-> TPL1_content_engagement]]

\* the template "D2C E-commerce (Fashion)"
TEMPLATE_2 ==
    [company_characteristics |->
        [industry_vertical |-> TPL2_industry_vertical,
         company_size |-> TPL2_company_size,
         geography |-> TPL2_geography,
         technology_stack |-> TPL2_technology_stack,
         business_model |-> TPL2_business_model,
         funding_growth |-> TPL2_funding_growth],
     buyer_persona |->
        [decision_maker_profile |-> TPL2_decision_maker_profile,
         pain_points |-> TPL2_pain_points,
         buying_behavior |-> TPL2_buying_behavior],
     engagement_signals |->
        [intent_signals |-> TPL2_intent_signals,
         content_engagement |-> TPL2_content_engagement]]

\* the template "Healthcare Tech (B2B)"
TEMPLATE_3 ==
    [company_characteristics |->
        [industry_vertical |-> TPL3_industry_vertical,
         company_size |-> TPL3_company_size,
         geography |-> TPL3_geography,
         technology_stack |-> TPL3_technology_stack,
         business_model |-> TPL3_business_model,
         funding_growth |-> TPL3_funding_growth],
     buyer_persona |->
        [decision_maker_profile |-> TPL3_decision_maker_profile,
         pain_points |-> TPL3_pain_points,
         buying_behavior |-> TPL3_buying_behavior],
     engagement_signals |->
        [intent_signals |-> TPL3_intent_signals,
         content_engagement |-> TPL3_content_engagement]]

\* the template "FinTech (B2B)"
TEMPLATE_4 ==
    [company_characteristics |->
        [industry_vertical |-> TPL4_industry_vertical,
         company_size |-> TPL4_company_size,
         geography |-> TPL4_geography,
         technology_stack |-> TPL4_technology_stack,
         business_model |-> TPL4_business_model,
         funding_growth |-> TPL4_funding_growth],
     buyer_persona |->
        [decision_maker_profile |-> TPL4_decision_maker_profile,
         pain_points |-> TPL4_pain_points,
         buying_behavior |-> TPL4_buying_behavior],
     engagement_signals |->
        [intent_signals |-> TPL4_intent_signals,
         content_engagement |-> TPL4_content_engagement]]

---------------------------------------------------------------------------
(* ICPWizard.run (src/icp/wizard.py), one step per input() call.  The      *)
(* wizard's frame is held in arg: the statement it is at, the choice made, *)
(* self.icp_data and the position of the question loops.                   *)

\* The user gives at most MaxRetries answers that a prompt rejects.
MaxRetries == 2

\* The user changes at most MaxUpdates fields when adjusting the ICP.
MaxUpdates == 2

\* ICPWizard.templates, in the order of the dictionary
templates == <<TEMPLATE_1, TEMPLATE_2, TEMPLATE_3, TEMPLATE_4>>

\* the keys of ICPWizard.questions, in the order of the dictionary
QuestionCategories ==
    <<"company_characteristics", "buyer_persona", "engagement_signals",
      "Enterprise Software (Large Accounts)">>

\* the keys of questions[category], in the order of the dictionary
QuestionKeys(category) ==
    CASE category = "company_characteristics" ->
            <<"industry_vertical", "company_size", "geography", "technology_stack",
              "business_model", "funding_growth">>
      [] category = "buyer_persona" ->
            <<"decision_maker_profile", "pain_points", "buying_behavior">>
      [] category = "engagement_signals" ->
            <<"intent_signals", "content_engagement">>
      [] category = "Enterprise Software (Large Accounts)" ->
            <<"company_characteristics", "buyer_persona", "engagement_signals">>

\* the keys of the dictionary questions[category][key]: a question and its
\* examples, or, under the fourth key, the criteria of a template group
QuestionDataKeys(category, key) ==
    IF category \in IcpGroups THEN {"question", "examples"}
    ELSE {QuestionKeys(key)[i] : i \in 1..Len(QuestionKeys(key))}

\* what the user may type at the prompt of a question: nothing, or an answer
Answers(category, key) == {EmptyStr, ICP_FULL[category][key]}

\* what the user may type at a numbered or yes/no prompt
ChoiceInputs == {"1", "2", "3"}

TemplateInputs == {"x", "0", "1", "2", "3", "4", "5"}

YesNoInputs == {"yes", "no", "NO ", "maybe"}

\* int(text.strip()): None stands for ValueError
ParseInt(text) ==
    CASE text = "0" -> Some(0)
      [] text = "1" -> Some(1)
      [] text = "2" -> Some(2)
      [] text = "3" -> Some(3)
      [] text = "4" -> Some(4)
      [] text = "5" -> Some(5)
      [] OTHER -> None

\* text.lower().strip()
LowerStrip(text) ==
    CASE text = "NO " -> "no"
      [] OTHER -> text

\* the frame of a call of run()
WizardFrame ==
    [pc |-> "l188", choice |-> "", icp_data |-> ICP_EMPTY, category |-> 1, key |-> 1,
     retries |-> 0, updates |-> 0, adjust |-> FALSE, export |-> FALSE]

InitWizard ==
    /\ raw_icp_definition = None
    /\ parsed_icp = None
    /\ bucket_thresholds = None
    /\ op = "ICPWizard.run"
    /\ arg = WizardFrame
    /\ result = None
    /\ AgentInit
    /\ api_keys = {}

\* a prompt is repeated after an answer it rejects
Retry(frame) ==
    [frame EXCEPT !.retries = frame.retries + 1]

\* the position of the question loops after questions[category][key]
NextQuestion(frame, after) ==
    LET keys == QuestionKeys(QuestionCategories[frame.category])
    IN  IF frame.key < Len(keys) THEN [frame EXCEPT !.key = frame.key + 1]
        ELSE IF frame.category < Len(QuestionCategories)
        THEN [frame EXCEPT !.category = frame.category + 1, !.key = 1]
        ELSE [frame EXCEPT !.pc = after]

WizardUnchanged == UNCHANGED <<bucket_thresholds, op, workflow_vars>>

\* lines 184-197: the start choice
StartChoice ==
    /\ arg.pc = "l188"
    /\ \E choice \in ChoiceInputs :
          IF choice = "1"
          THEN arg' = [arg EXCEPT !.pc = "l174", !.choice = "1", !.category = 1, !.key = 1]
          ELSE IF choice = "2"
          THEN arg' = [arg EXCEPT !.pc = "l257", !.choice = "2"]
          ELSE arg.retries < MaxRetries /\ arg' = Retry(arg)
    /\ UNCHANGED <<raw_icp_definition, parsed_icp, result>> /\ WizardUnchanged

\* lines 243-248 and 167-178: the next question of _define_icp_from_scratch
AskQuestion ==
    /\ arg.pc = "l174"
    /\ LET category == QuestionCategories[arg.category]
           key      == QuestionKeys(category)[arg.key]
       IN  IF "question" \notin QuestionDataKeys(category, key)
           THEN /\ result' = Raised("KeyError")
                /\ arg' = [arg EXCEPT !.pc = "raised"]
           ELSE \E response \in Answers(category, key) :
                   IF response = EmptyStr
                   THEN /\ arg.retries < MaxRetries
                        /\ arg' = Retry(arg)
                        /\ UNCHANGED result
                   ELSE IF category \notin DOMAIN arg.icp_data
                   THEN /\ result' = Raised("KeyError")
                        /\ arg' = [arg EXCEPT !.pc = "raised"]
                   ELSE /\ arg' = NextQuestion(
                                     [arg EXCEPT !.icp_data[category] =
                                         Put(arg.icp_data[category], key, response)],
                                     "l204")
                        /\ UNCHANGED result
    /\ UNCHANGED <<raw_icp_definition, parsed_icp>> /\ WizardUnchanged

\* lines 250-266: _load_icp_from_template
SelectTemplate ==
    /\ arg.pc = "l257"
    /\ \E text \in TemplateInputs :
          LET choice == ParseInt(text)
          IN  IF choice # None /\ 1 <= choice[1] /\ choice[1] <= Len(templates)
              THEN arg' = [arg EXCEPT !.pc = "l204", !.icp_data = templates[choice[1]]]
              ELSE arg.retries < MaxRetries /\ arg' = Retry(arg)
    /\ UNCHANGED <<raw_icp_definition, parsed_icp, result>> /\ WizardUnchanged

\* lines 199-215: the summary, the scorer, validate_icp and check_icp_quality
ValidateAndCheck ==
    /\ arg.pc = "l204"
    /\ LET scorer == new_scorer(arg.icp_data)
       IN  /\ raw_icp_definition' = scorer.raw_icp_definition
           /\ parsed_icp' = scorer.parsed_icp
           /\ IF scorer.result.kind = "raise"
              THEN /\ result' = scorer.result
                   /\ arg' = [arg EXCEPT !.pc = "raised"]
              ELSE /\ arg' = [arg EXCEPT !.pc =
                                 IF validate_icp(scorer.parsed_icp).is_valid
                                 THEN "l219" ELSE "l229"]
                   /\ UNCHANGED result
    /\ WizardUnchanged

\* lines 217-225: the adjustment prompt
AdjustChoice ==
    /\ arg.pc = "l219"
    /\ \E text \in YesNoInputs :
          LET adjust == LowerStrip(text)
          IN  IF adjust = "yes"
              THEN arg' = [arg EXCEPT !.pc = "l275", !.adjust = TRUE,
                                      !.category = 1, !.key = 1]
              ELSE IF adjust = "no"
              THEN arg' = [arg EXCEPT !.pc = "l229"]
              ELSE arg.retries < MaxRetries /\ arg' = Retry(arg)
    /\ UNCHANGED <<raw_icp_definition, parsed_icp, result>> /\ WizardUnchanged

\* lines 268-279: the next field of _update_icp; after the last one line 223
\* runs the wizard again and returns what that run returns
UpdateIcp ==
    /\ arg.pc = "l275"
    /\ LET category == QuestionCategories[arg.category]
           key      == QuestionKeys(category)[arg.key]
       IN  IF category \notin DOMAIN arg.icp_data
           THEN /\ result' = Raised("KeyError")
                /\ arg' = [arg EXCEPT !.pc = "raised"]
           ELSE \E response \in Answers(category, key) :
                   /\ response # EmptyStr => arg.updates < MaxUpdates
                   /\ arg' = NextQuestion(
                                IF response # EmptyStr
                                THEN [arg EXCEPT !.updates = arg.updates + 1,
                                                 !.icp_data[category] =
                                         Put(arg.icp_data[category], key, response)]
                                ELSE arg,
                                "l188")
                   /\ UNCHANGED result
    /\ UNCHANGED <<raw_icp_definition, parsed_icp>> /\ WizardUnchanged

\* lines 227-238: the export prompt; "no" ends the run
ExportChoice ==
    /\ arg.pc = "l229"
    /\ \E text \in YesNoInputs :
          LET export_choice == LowerStrip(text)
          IN  IF export_choice = "yes"
              THEN arg' = [arg EXCEPT !.pc = "l232", !.export = TRUE] /\ UNCHANGED result
              ELSE IF export_choice = "no"
              THEN /\ arg' = [arg EXCEPT !.pc = "done"]
                   /\ result' = Returned(arg.icp_data)
              ELSE arg.retries < MaxRetries /\ arg' = Retry(arg) /\ UNCHANGED result
    /\ UNCHANGED <<raw_icp_definition, parsed_icp>> /\ WizardUnchanged

\* lines 231-234 and 281-311: the format prompt and _export_icp_data, which
\* writes the file or reports that it could not; then the run ends
ExportData ==
    /\ arg.pc = "l232"
    /\ \E format_choice \in ChoiceInputs :
          /\ arg' = [arg EXCEPT !.pc = "done"]
          /\ result' = Returned(arg.icp_data)
    /\ UNCHANGED <<raw_icp_definition, parsed_icp>> /\ WizardUnchanged

NextWizard ==
    \/ StartChoice
    \/ AskQuestion
    \/ SelectTemplate
    \/ ValidateAndCheck
    \/ AdjustChoice
    \/ UpdateIcp
    \/ ExportChoice
    \/ ExportData

SpecWizard == InitWizard /\ [][NextWizard]_vars

\* input() returns once the user has typed an answer, and every other statement
\* of run() is executed when it is reached; for the statements of lines 199-215,
\* which are enabled exactly at l204, weak fairness is written out
SpecWizardFair ==
    /\ SpecWizard
    /\ WF_vars(StartChoice \/ AskQuestion \/ SelectTemplate \/ AdjustChoice
                   \/ UpdateIcp \/ ExportChoice \/ ExportData)
    /\ ([]<>(arg.pc # "l204") \/ []<><<ValidateAndCheck>>_vars)

\* self.icp_data holds an answer to every question of the three groups
EveryQuestionAnswered ==
    \A g \in IcpGroups :
        DOMAIN arg.icp_data[g] = {QuestionKeys(g)[i] : i \in 1..Len(QuestionKeys(g))}

\* run() has returned an ICP definition of exactly the three groups
ReturnedIcpDefinition ==
    /\ result # None
    /\ result.kind = "return"
    /\ DOMAIN result.value = IcpGroups

\* C26: ICPWizard.run eventually returns an ICP definition consisting of exactly
\* the three groups, for either start choice: with choice 1 once the user has
\* given a non-empty answer to every question, with choice 2 once a valid
\* template number is chosen, provided the user declines adjustment and export.
C26_WizardReturns ==
    (\/ arg.choice = "1" /\ EveryQuestionAnswered
     \/ arg.choice = "2" /\ arg.pc # "l257")
        ~> (arg.adjust \/ arg.export \/ ReturnedIcpDefinition)

\* C26 for choice 2 alone
C26_TemplateReturns ==
    (arg.choice = "2" /\ arg.pc # "l257")
        ~> (arg.adjust \/ arg.export \/ ReturnedIcpDefinition)

=============================================================================
